---- MODULE Spec2Model ----
(***************************************************************************)
(* mdmd: index-cache refresh, symlink reconciliation and batch removal.    *)
(*                                                                         *)
(* State: the markdown documents of one collection (docs), the SQLite      *)
(* index_notes rows of that collection (cache), the symlink directory of   *)
(* the working directory (dirExists, links), the working directory's       *)
(* .git/info/exclude state (gitExclude), and a record of the last command  *)
(* that ran (last) with a snapshot of the state it started from (pre).     *)
(* Beside them: the symlink directory of a second working directory        *)
(* (otherLinks), the index_notes rows of a second collection (otherCache)  *)
(* and, where a command is followed statement by statement, the command    *)
(* in progress (run).  The file names of the ingest destination directory  *)
(* are destDir; the state of the terminal interface (reducer state and     *)
(* batch tasks in flight) is tui.                                          *)
(***************************************************************************)
EXTENDS Integers, Sequences, FiniteSets, TLC

VARIABLES docs, cache, dirExists, links, gitExclude, last, pre,
          otherLinks, otherCache, run, destDir, tui

vars ==
    <<docs, cache, dirExists, links, gitExclude, last, pre, otherLinks, otherCache, run,
      destDir, tui>>

\* The symlink directory of another working directory, the rows of another
\* collection, the command in progress, the ingest destination directory
\* and the state of the terminal interface.
others == <<otherLinks, otherCache, run, destDir, tui>>

(***************************************************************************)
(* Bounds                                                                  *)
(***************************************************************************)
MaxMtimeSec == 2

\* The highest index findAvailableFilename is followed to.
MaxSuffix == 3

(***************************************************************************)
(* Paths.  A collection-relative path is a record [dir, stem]: dir is the  *)
(* sequence of directory names, stem the file name without its ".md"       *)
(* extension, written as the sequence of its "__"-separated parts, so that *)
(* "n__b.md" is <<"n", "b">> and appending a parent name to a stem is      *)
(* sequence concatenation.                                                 *)
(***************************************************************************)
P_a_n   == [dir |-> <<"a">>, stem |-> <<"n">>]        \* a/n.md
P_a_nb  == [dir |-> <<"a">>, stem |-> <<"n", "b">>]   \* a/n__b.md
P_b_n   == [dir |-> <<"b">>, stem |-> <<"n">>]        \* b/n.md
P_c_n   == [dir |-> <<"c">>, stem |-> <<"n">>]        \* c/n.md
P_c_nb  == [dir |-> <<"c">>, stem |-> <<"n", "b">>]   \* c/n__b.md
P_d_nb  == [dir |-> <<"d">>, stem |-> <<"n", "b">>]   \* d/n__b.md
P_n     == [dir |-> <<>>, stem |-> <<"n">>]           \* n.md

\* The universe of paths in ascending path_in_collection order.
AllPaths == <<P_a_n, P_a_nb, P_b_n, P_c_n, P_c_nb, P_d_nb, P_n>>

AllPathSet == {AllPaths[i] : i \in 1..Len(AllPaths)}

\* The paths at which the collection holds documents.
DocPaths == {P_a_n, P_b_n}

Rank(p) == CHOOSE i \in 1..Len(AllPaths) : AllPaths[i] = p

\* The elements of a set of paths as a sequence in ascending order.
RECURSIVE SortedPaths(_)
SortedPaths(S) ==
    IF S = {} THEN <<>>
    ELSE LET m == CHOOSE p \in S : \A q \in S : Rank(p) <= Rank(q)
         IN  <<m>> \o SortedPaths(S \ {m})

(***************************************************************************)
(* Documents and frontmatter                                               *)
(***************************************************************************)
NoId == "no_id"
NoPath == "no_path"
\* A frontmatter without a paths array (a sequence that is no list of Dirs).
NoList == <<"no_list">>
\* A frontmatter without a created_at string, and a valid ISO timestamp.
NoStamp == "no_created_at"
Stamp == "T0"
\* A created_at string that ISO_8601_TIMESTAMP_PATTERN rejects: an ISO 8601
\* timestamp with a UTC offset, e.g. 2024-01-01T10:00:00+02:00.
OffsetStamp == "T0+02:00"
NoFile == [absent |-> "file"]
NoRow == [absent |-> "row"]

Cwd == "D"
OtherDir == "E"
Dirs == {Cwd, OtherDir}
Ids == {"X", "Y"}

MsPerSec == 1000
HalfSec == 500

\* Modification times in milliseconds: whole seconds and one time that is
\* not a whole second.
MtimesMs == {s * MsPerSec : s \in 1..MaxMtimeSec} \cup {MsPerSec + HalfSec}

\* File sizes in bytes.
Sizes == {1, 2}

\* Frontmatter: the keys the system reads (mdmd_id, legacy scalar path,
\* paths array, created_at).
Frontmatter(id, path, paths, created) ==
    [mdmd_id |-> id, path |-> path, paths |-> paths, created_at |-> created]

EmptyDocs == [p \in DocPaths |-> NoFile]
EmptyCache == [p \in DocPaths |-> NoRow]

(***************************************************************************)
(* index-db                                                                *)
(***************************************************************************)
\* Rows of the cache as file stats.
listIndexedFileStats(c) == {p \in DocPaths : c[p] # NoRow}

\* Mutant: the DELETE statement matches no row.
deleteIndexNoteByPath_NoMatch(c, p) == c

deleteIndexNoteByPath(c, p) == [c EXCEPT ![p] = NoRow]

\* idx_notes_collection_mdmd_id: UNIQUE (collection_id, mdmd_id) WHERE
\* mdmd_id IS NOT NULL.
ViolatesUniqueMdmdId(c, note) ==
    /\ note.mdmdId # NoId
    /\ \E q \in DocPaths :
          /\ q # note.pathInCollection
          /\ c[q] # NoRow
          /\ c[q].mdmdId = note.mdmdId

\* INSERT ... ON CONFLICT(collection_id, path_in_collection) DO UPDATE.
\* The statement fails on a violation of the unique mdmd_id index.
upsertIndexNote(c, note) ==
    IF ViolatesUniqueMdmdId(c, note)
    THEN [ok |-> FALSE, cache |-> c]
    ELSE [ok |-> TRUE,
          cache |-> [c EXCEPT ![note.pathInCollection] =
                        [mdmdId |-> note.mdmdId, mtime |-> note.mtime,
                         size |-> note.size, frontmatter |-> note.frontmatter]]]

(***************************************************************************)
(* refresh-index                                                           *)
(***************************************************************************)
\* stat() of one markdown file: mtime is floored to seconds.
Snapshot(d, p) ==
    [pathInCollection |-> p, mtime |-> d[p].mtimeMs \div MsPerSec, size |-> d[p].size]

\* The markdown files of the collection, sorted by path.
scanCollectionMarkdownFiles(d) ==
    LET ps == SortedPaths({p \in DocPaths : d[p] # NoFile})
    IN  [i \in 1..Len(ps) |-> Snapshot(d, ps[i])]

\* Mutant: the size is left out of the fingerprint comparison.
shouldRefreshFile_MtimeOnly(existingFile, nextFile) ==
    IF existingFile = NoRow THEN TRUE
    ELSE existingFile.mtime # nextFile.mtime

shouldRefreshFile(existingFile, nextFile) ==
    IF existingFile = NoRow THEN TRUE
    ELSE existingFile.mtime # nextFile.mtime \/ existingFile.size # nextFile.size

\* Mutant: the row keeps the raw millisecond mtime instead of the scanned one.
toIndexNote_RawMtime(d, file) ==
    [frontmatter |-> d[file.pathInCollection].fm,
     mdmdId |-> d[file.pathInCollection].fm.mdmd_id,
     mtime |-> d[file.pathInCollection].mtimeMs,
     pathInCollection |-> file.pathInCollection,
     size |-> file.size]

\* Re-read and re-parse one file.
toIndexNote(d, file) ==
    [frontmatter |-> d[file.pathInCollection].fm,
     mdmdId |-> d[file.pathInCollection].fm.mdmd_id,
     mtime |-> file.mtime,
     pathInCollection |-> file.pathInCollection,
     size |-> file.size]

\* collectionFiles.filter(shouldRefreshFile(indexedFilesByPath.get(path), file))
RECURSIVE FilesToRefresh(_, _)
FilesToRefresh(c, files) ==
    IF files = <<>> THEN <<>>
    ELSE (IF shouldRefreshFile(c[Head(files).pathInCollection], Head(files))
          THEN <<Head(files)>> ELSE <<>>) \o FilesToRefresh(c, Tail(files))

RECURSIVE ApplyDeletes(_, _)
ApplyDeletes(c, paths) ==
    IF paths = <<>> THEN c
    ELSE ApplyDeletes(deleteIndexNoteByPath(c, Head(paths)), Tail(paths))

RECURSIVE ApplyUpserts(_, _)
ApplyUpserts(c, notes) ==
    IF notes = <<>> THEN [ok |-> TRUE, cache |-> c]
    ELSE LET r == upsertIndexNote(c, Head(notes))
         IN  IF r.ok THEN ApplyUpserts(r.cache, Tail(notes)) ELSE r

\* The body of the transaction: deletes, then upserts, stopping at the first
\* failing statement with whatever was applied so far.
ApplyBatch(c, paths, notes) == ApplyUpserts(ApplyDeletes(c, paths), notes)

\* Mutant: the batch runs outside a transaction, a throw keeps what was applied.
Transaction_NoRollback(c, paths, notes) == ApplyBatch(c, paths, notes)

\* db.transaction(...): a throw inside the body rolls everything back.
Transaction(c, paths, notes) ==
    LET r == ApplyBatch(c, paths, notes)
    IN  IF r.ok THEN r ELSE [ok |-> FALSE, cache |-> c]

\* Mutant: rows of files that are gone are kept.
PathsToDelete_None(c, collectionFiles) == <<>>

\* Indexed paths that are no longer among the scanned files, sorted.
PathsToDelete(c, collectionFiles) ==
    SortedPaths({p \in listIndexedFileStats(c) :
                    \A i \in 1..Len(collectionFiles) : collectionFiles[i].pathInCollection # p})

\* Promise.all(filesToRefresh.map(toIndexNote))
NotesToUpsert(d, filesToRefresh) ==
    [i \in 1..Len(filesToRefresh) |-> toIndexNote(d, filesToRefresh[i])]

\* The value refreshIndex returns once the transaction has ended.
RefreshOutcome(collectionFiles, pathsToDelete, filesToRefresh, txn) ==
    [ok |-> txn.ok,
     cache |-> txn.cache,
     toDelete |-> {pathsToDelete[i] : i \in 1..Len(pathsToDelete)},
     toRefresh |-> {filesToRefresh[i].pathInCollection : i \in 1..Len(filesToRefresh)},
     deleted |-> Len(pathsToDelete),
     refreshed |-> Len(filesToRefresh),
     scanned |-> Len(collectionFiles),
     unchanged |-> Len(collectionFiles) - Len(filesToRefresh)]

\* refreshIndex once the collection is scanned.
RefreshScanned(d, c, collectionFiles) ==
    LET pathsToDelete == PathsToDelete(c, collectionFiles)
        filesToRefresh == FilesToRefresh(c, collectionFiles)
    IN  RefreshOutcome(collectionFiles, pathsToDelete, filesToRefresh,
                       Transaction(c, pathsToDelete, NotesToUpsert(d, filesToRefresh)))

refreshIndex(d, c) == RefreshScanned(d, c, scanCollectionMarkdownFiles(d))

(***************************************************************************)
(* The symlink directory.  An entry is absent, a non-symlink (regular file *)
(* or directory) or a symlink; a symlink is identified by the absolute     *)
(* path its link text resolves to (path.resolve(dirname, readlink)).       *)
(***************************************************************************)
CollectionRoot == "/collection"

\* path.join(collectionRoot, ...pathInCollection.split("/"))
toAbsoluteCollectionPath(p) == [root |-> CollectionRoot, rel |-> p]

\* A file outside the collection root.
Outside == [root |-> "/elsewhere", rel |-> P_n]

NoEntry == [kind |-> "none"]
NonSymlink == [kind |-> "file"]
Symlink(t) == [kind |-> "symlink", target |-> t]

\* Entry names: "n.md" and "n__b.md".
LinkNames == {<<"n">>, <<"n", "b">>}

NoLinks == [n \in LinkNames |-> NoEntry]

\* Mutant: an existing symlink is re-created even when it resolves to the target.
ensureSymlinkTarget_AlwaysRecreate(l, name, targetPath) ==
    IF l[name] = NoEntry
    THEN [ok |-> TRUE, links |-> [l EXCEPT ![name] = Symlink(targetPath)], ops |-> 1]
    ELSE IF l[name].kind # "symlink"
    THEN [ok |-> FALSE, links |-> l, ops |-> 0]
    ELSE [ok |-> TRUE, links |-> [l EXCEPT ![name] = Symlink(targetPath)], ops |-> 2]

\* ensureSymlinkTarget(symlinkPath, targetPath): ops counts the unlink and
\* symlink calls made.
ensureSymlinkTarget(l, name, targetPath) ==
    IF l[name] = NoEntry
    THEN [ok |-> TRUE, links |-> [l EXCEPT ![name] = Symlink(targetPath)], ops |-> 1]
    ELSE IF l[name].kind # "symlink"
    THEN [ok |-> FALSE, links |-> l, ops |-> 0]
    ELSE IF l[name].target = targetPath
    THEN [ok |-> TRUE, links |-> l, ops |-> 0]
    ELSE [ok |-> TRUE, links |-> [l EXCEPT ![name] = Symlink(targetPath)], ops |-> 2]

\* ensureGitExcludeEntry(cwd, entry): nothing outside a git repository.
ensureGitExcludeEntry(g) == IF g = "missing" THEN "present" ELSE g

(***************************************************************************)
(* sync-state                                                              *)
(***************************************************************************)
\* SELECT path_in_collection FROM index_notes WHERE mdmd_id IS NOT NULL AND
\* json_extract(frontmatter, '$.path') = cwd ORDER BY path_in_collection ASC
listManagedPathsForCwd(c, cwd) ==
    SortedPaths({p \in DocPaths :
                    /\ c[p] # NoRow
                    /\ c[p].mdmdId # NoId
                    /\ c[p].frontmatter.path = cwd})

\* path.posix.basename(path.posix.dirname(pathInCollection)); "." at top level.
ParentName(p) == IF p.dir = <<>> THEN "." ELSE p.dir[Len(p.dir)]

\* Mutant: the disambiguated name is not checked against the names in use.
resolveSymlinkName_NoRecheck(p, usedNames) ==
    IF p.stem \notin usedNames
    THEN [ok |-> TRUE, name |-> p.stem, error |-> "none"]
    ELSE IF ParentName(p) = "."
    THEN [ok |-> FALSE, name |-> p.stem, error |-> "cannot_disambiguate"]
    ELSE [ok |-> TRUE, name |-> p.stem \o <<ParentName(p)>>, error |-> "none"]

resolveSymlinkName(p, usedNames) ==
    IF p.stem \notin usedNames
    THEN [ok |-> TRUE, name |-> p.stem, error |-> "none"]
    ELSE IF ParentName(p) = "."
    THEN [ok |-> FALSE, name |-> p.stem, error |-> "cannot_disambiguate"]
    ELSE IF (p.stem \o <<ParentName(p)>>) \in usedNames
    THEN [ok |-> FALSE, name |-> p.stem \o <<ParentName(p)>>, error |-> "collision"]
    ELSE [ok |-> TRUE, name |-> p.stem \o <<ParentName(p)>>, error |-> "none"]

\* The loop of buildDesiredSymlinks over the remaining managed paths.
RECURSIVE BuildFrom(_, _, _)
BuildFrom(paths, usedNames, acc) ==
    IF paths = <<>> THEN [ok |-> TRUE, entries |-> acc, error |-> "none", at |-> 0]
    ELSE LET r == resolveSymlinkName(Head(paths), usedNames)
         IN  IF ~r.ok
             THEN [ok |-> FALSE, entries |-> <<>>, error |-> r.error, at |-> Len(acc) + 1]
             ELSE BuildFrom(Tail(paths), usedNames \cup {r.name},
                            Append(acc, [pathInCollection |-> Head(paths),
                                         symlinkName |-> r.name,
                                         targetPath |-> toAbsoluteCollectionPath(Head(paths))]))

buildDesiredSymlinks(managedPaths) == BuildFrom(managedPaths, {}, <<>>)

\* new Map(desiredSymlinks.map((entry) => [entry.symlinkName, entry.targetPath]))
DesiredNames(entries) == {entries[i].symlinkName : i \in 1..Len(entries)}

(***************************************************************************)
(* Reconciliation of the symlink directory                                 *)
(***************************************************************************)
RemoveEntries(l, names) == [n \in LinkNames |-> IF n \in names THEN NoEntry ELSE l[n]]

\* ensureSymlinkTarget for every desired entry; every call runs to its end,
\* failed counts the rejected ones.
RECURSIVE EnsureAll(_, _)
EnsureAll(l, entries) ==
    IF entries = <<>> THEN [links |-> l, ops |-> 0, failed |-> 0]
    ELSE LET e == ensureSymlinkTarget(l, Head(entries).symlinkName, Head(entries).targetPath)
             rest == EnsureAll(e.links, Tail(entries))
         IN  [links |-> rest.links,
              ops |-> e.ops + rest.ops,
              failed |-> rest.failed + (IF e.ok THEN 0 ELSE 1)]

\* Mutant: the lstat check of the existing entries is skipped.
ExistingNonSymlinks_Ignored(l) == {}

\* Entries of the symlink directory for which lstat().isSymbolicLink() is false.
ExistingNonSymlinks(l) == {n \in LinkNames : l[n] # NoEntry /\ l[n].kind # "symlink"}

\* Mutant: entries outside the desired set are not removed.
SyncStaleEntries_None(l, desiredNames) == {}

\* existingSymlinks.filter((entry) => !desiredByName.has(entry.entryName))
SyncStaleEntries(l, desiredNames) == {n \in LinkNames : l[n] # NoEntry /\ n \notin desiredNames}

SyncResult(status, error, c, dirE, l, g, desired, ops) ==
    [status |-> status, error |-> error, cache |-> c, dirExists |-> dirE, links |-> l,
     gitExclude |-> g, desired |-> desired, ops |-> ops]

\* Sync.run after the ensureSymlinkTarget calls: the git exclude entry.
SyncEnsured(c, g, entries, stale, e) ==
    IF e.failed > 0
    THEN SyncResult("error", "ensure", c, TRUE, e.links, g, entries, Cardinality(stale) + e.ops)
    ELSE SyncResult("ok", "none", c, TRUE, e.links, ensureGitExcludeEntry(g), entries,
                    Cardinality(stale) + e.ops)

\* Sync.run once the desired set is built: mkdir, readdir and lstat, then the
\* stale entries are unlinked and every desired entry is ensured.
SyncDesired(c, dirE, l, g, b) ==
    IF ~b.ok THEN SyncResult("error", b.error, c, dirE, l, g, <<>>, 0)
    ELSE IF ExistingNonSymlinks(l) # {}
    THEN SyncResult("error", "non_symlink", c, TRUE, l, g, b.entries, 0)
    ELSE LET stale == SyncStaleEntries(l, DesiredNames(b.entries))
         IN  SyncEnsured(c, g, b.entries, stale, EnsureAll(RemoveEntries(l, stale), b.entries))

\* Sync.run once the index is refreshed.
SyncRefreshed(dirE, l, g, r) ==
    IF ~r.ok THEN SyncResult("error", "refresh", r.cache, dirE, l, g, <<>>, 0)
    ELSE SyncDesired(r.cache, dirE, l, g,
                     buildDesiredSymlinks(listManagedPathsForCwd(r.cache, Cwd)))

\* Sync.run
SyncRun(d, c, dirE, l, g) == SyncRefreshed(dirE, l, g, refreshIndex(d, c))

(***************************************************************************)
(* doctor                                                                  *)
(***************************************************************************)
NoDoc == [dir |-> <<>>, stem |-> <<>>]
NoName == <<>>

Issue(code, severity, scope, doc, entry) ==
    [code |-> code, severity |-> severity, scope |-> scope, doc |-> doc, entry |-> entry]

resolveScopes(scopeFlag) ==
    IF scopeFlag = "all" THEN {"config", "index", "symlinks"} ELSE {scopeFlag}

ScopeFlags == {"all", "config", "index", "symlinks"}

collectDuplicateMdmdIds(c) ==
    {Issue("index.duplicate_mdmd_id", "error", "index", NoDoc, <<i>>) :
        i \in {i \in Ids : Cardinality({p \in DocPaths : c[p] # NoRow /\ c[p].mdmdId = i}) > 1}}

collectManagedMetadataIssues(c) ==
    LET managed == {p \in DocPaths : c[p] # NoRow /\ c[p].mdmdId # NoId}
    IN  {Issue("index.invalid_mdmd_id", "error", "index", p, NoName) :
            p \in {p \in managed : c[p].frontmatter.mdmd_id # c[p].mdmdId}}
        \cup
        {Issue("index.invalid_paths", "error", "index", p, NoName) :
            p \in {p \in managed : c[p].frontmatter.paths = NoList \/ c[p].frontmatter.paths = <<>>}}
        \cup
        {Issue("index.invalid_created_at", "warning", "index", p, NoName) :
            p \in {p \in managed : c[p].frontmatter.created_at = NoStamp}}

collectIndexIssues(d, c) ==
    {Issue("index.missing_row", "error", "index", p, NoName) :
        p \in {p \in DocPaths : d[p] # NoFile /\ c[p] = NoRow}}
    \cup
    {Issue("index.stale_row", "error", "index", p, NoName) :
        p \in {p \in DocPaths : c[p] # NoRow /\ d[p] = NoFile}}
    \cup collectDuplicateMdmdIds(c)
    \cup collectManagedMetadataIssues(c)

\* pathExists(targetPath)
pathExists(d, t) == IF t.root = CollectionRoot THEN d[t.rel] # NoFile ELSE t = Outside

DesiredTarget(entries, name) ==
    (CHOOSE i \in 1..Len(entries) : entries[i].symlinkName = name)

inspectWorkingEntry(d, l, entries, n) ==
    IF l[n].kind # "symlink"
    THEN {Issue("symlinks.non_symlink_entry", "warning", "symlinks", NoDoc, n)}
    ELSE (IF n \notin DesiredNames(entries)
          THEN {Issue("symlinks.orphan", "warning", "symlinks", NoDoc, n)}
          ELSE IF entries[DesiredTarget(entries, n)].targetPath # l[n].target
          THEN {Issue("symlinks.stale_target", "error", "symlinks", NoDoc, n)}
          ELSE {})
         \cup
         (IF ~pathExists(d, l[n].target)
          THEN {Issue("symlinks.broken", "error", "symlinks", NoDoc, n)}
          ELSE {})

\* collectSymlinkIssues once the desired set is built.
SymlinkIssuesFor(d, dirE, l, b) ==
    IF ~b.ok THEN [ok |-> FALSE, issues |-> {}, desired |-> <<>>]
    ELSE IF ~dirE
    THEN [ok |-> TRUE,
          issues |-> IF Len(b.entries) > 0
                     THEN {Issue("symlinks.directory_missing", "error", "symlinks", NoDoc, NoName)}
                     ELSE {},
          desired |-> b.entries]
    ELSE [ok |-> TRUE,
          issues |->
             UNION {inspectWorkingEntry(d, l, b.entries, n) : n \in {n \in LinkNames : l[n] # NoEntry}}
             \cup
             {Issue("symlinks.missing", "error", "symlinks", NoDoc, n) :
                 n \in {n \in DesiredNames(b.entries) : l[n] = NoEntry}},
          desired |-> b.entries]

\* collectSymlinkIssues: throws when the desired set cannot be built.
collectSymlinkIssues(d, c, dirE, l) ==
    SymlinkIssuesFor(d, dirE, l, buildDesiredSymlinks(listManagedPathsForCwd(c, Cwd)))

\* The issues of the selected scopes; s is what collectSymlinkIssues yields.
DoctorIssuesFor(scopes, d, c, g, s) ==
    [ok |-> ("symlinks" \in scopes) => s.ok,
     issues |->
        (IF "config" \in scopes /\ g = "missing"
         THEN {Issue("config.git_exclude_missing", "warning", "config", NoDoc, NoName)}
         ELSE {})
        \cup (IF "index" \in scopes THEN collectIndexIssues(d, c) ELSE {})
        \cup (IF "symlinks" \in scopes THEN s.issues ELSE {}),
     desired |-> IF "symlinks" \in scopes THEN s.desired ELSE <<>>]

\* collectDoctorIssues for an existing collection root.
collectDoctorIssues(scopes, d, c, dirE, l, g) ==
    DoctorIssuesFor(scopes, d, c, g, collectSymlinkIssues(d, c, dirE, l))

\* Mutant: every entry outside the desired set is stale, symlink or not.
DoctorStaleSymlinks_AnyEntry(l, desiredNames) ==
    {n \in LinkNames : l[n] # NoEntry /\ n \notin desiredNames}

\* staleSymlinks of applySymlinkFixes: symlinks outside the desired set.
DoctorStaleSymlinks(l, desiredNames) ==
    {n \in LinkNames : l[n].kind = "symlink" /\ n \notin desiredNames}

\* applySymlinkFixes after the Promise.allSettled over the desired entries.
SymlinkFixesEnsured(entries, stale, e) ==
    [ok |-> TRUE, links |-> e.links, removed |-> Cardinality(stale),
     ensured |-> Len(entries) - e.failed]

\* applySymlinkFixes once the desired set is built.
SymlinkFixesFor(l, b) ==
    IF ~b.ok THEN [ok |-> FALSE, links |-> l, removed |-> 0, ensured |-> 0]
    ELSE LET stale == DoctorStaleSymlinks(l, DesiredNames(b.entries))
         IN  SymlinkFixesEnsured(b.entries, stale,
                                 EnsureAll(RemoveEntries(l, stale), b.entries))

\* applySymlinkFixes: rejected ensure calls are settled, not thrown.
applySymlinkFixes(c, l) ==
    SymlinkFixesFor(l, buildDesiredSymlinks(listManagedPathsForCwd(c, Cwd)))

DoctorResult(status, c, dirE, l, g, issues, desired, fixes) ==
    [status |-> status, cache |-> c, dirExists |-> dirE, links |-> l, gitExclude |-> g,
     issues |-> issues, desired |-> desired, fixes |-> fixes]

\* The exit code after the second collectDoctorIssues.
DoctorRechecked(c, dirE, l, g, fixes, again) ==
    IF ~again.ok THEN DoctorResult("error", c, dirE, l, g, {}, <<>>, fixes)
    ELSE DoctorResult(IF again.issues = {} THEN "ok" ELSE "issues",
                      c, dirE, l, g, again.issues, again.desired, fixes)

\* applyDoctorFixes after the refresh: f is what the symlink fixes yield; then
\* the git exclude entry and the second collectDoctorIssues.
DoctorFixSymlinks(scopes, d, c, dirE, l, g, wantRefresh, f) ==
    LET wantLinks == "symlinks" \in scopes
        wantExclude == ("config" \in scopes \/ "symlinks" \in scopes) /\ g = "missing"
        dirE2 == dirE \/ wantLinks
        g2 == IF wantExclude THEN ensureGitExcludeEntry(g) ELSE g
        fixes == (IF wantRefresh THEN {"refresh_index"} ELSE {})
                 \cup (IF wantLinks THEN {"reconcile_symlinks"} ELSE {})
                 \cup (IF wantExclude THEN {"ensure_git_exclude"} ELSE {})
    IN  IF ~f.ok THEN DoctorResult("error", c, dirE, l, g, {}, <<>>, {})
        ELSE DoctorRechecked(c, dirE2, f.links, g2, fixes,
                             collectDoctorIssues(scopes, d, c, dirE2, f.links, g2))

\* applyDoctorFixes once the refresh r has ended.
DoctorFixIndex(scopes, d, dirE, l, g, wantRefresh, r) ==
    IF ~r.ok THEN DoctorResult("error", r.cache, dirE, l, g, {}, <<>>, {})
    ELSE DoctorFixSymlinks(scopes, d, r.cache, dirE, l, g, wantRefresh,
                           IF "symlinks" \in scopes THEN applySymlinkFixes(r.cache, l)
                           ELSE [ok |-> TRUE, links |-> l, removed |-> 0, ensured |-> 0])

\* applyDoctorFixes followed by the second collectDoctorIssues.
DoctorFix(scopes, issues, d, c, dirE, l, g) ==
    LET wantRefresh == "index" \in scopes /\ \E i \in issues : i.scope = "index"
    IN  DoctorFixIndex(scopes, d, dirE, l, g, wantRefresh,
                       IF wantRefresh THEN refreshIndex(d, c) ELSE [ok |-> TRUE, cache |-> c])

\* Mutant: the fixes are applied whether or not --fix was given.
DoctorCollected_AlwaysFix(scopes, fix, d, c, dirE, l, g, first) ==
    IF ~first.ok THEN DoctorResult("error", c, dirE, l, g, {}, <<>>, {})
    ELSE DoctorFix(scopes, first.issues, d, c, dirE, l, g)

\* Doctor.run once the issues are collected.
DoctorCollected(scopes, fix, d, c, dirE, l, g, first) ==
    IF ~first.ok THEN DoctorResult("error", c, dirE, l, g, {}, <<>>, {})
    ELSE IF fix THEN DoctorFix(scopes, first.issues, d, c, dirE, l, g)
    ELSE DoctorResult(IF first.issues = {} THEN "ok" ELSE "issues",
                      c, dirE, l, g, first.issues, first.desired, {})

\* Doctor.run: exit code 0 ("ok"), 1 ("issues") or 2 ("error").
DoctorRun(scopeFlag, fix, d, c, dirE, l, g) ==
    DoctorCollected(resolveScopes(scopeFlag), fix, d, c, dirE, l, g,
                    collectDoctorIssues(resolveScopes(scopeFlag), d, c, dirE, l, g))

(***************************************************************************)
(* link                                                                    *)
(***************************************************************************)
Elems(seq) == {seq[i] : i \in 1..Len(seq)}

\* The clock at the time a command writes a file, in milliseconds.
NowMs == MaxMtimeSec * MsPerSec

\* Size of the text stringifyFrontmatter yields: it grows with the paths list.
SizeOfText(fm) == IF fm.paths = NoList THEN 1 ELSE 1 + Len(fm.paths)

\* resolveCreatedAt(rawCreatedAt, now)
resolveCreatedAt(created) == IF created \in {NoStamp, OffsetStamp} THEN Stamp ELSE created

LinkResult(status, error, d, c, dirE, l, g) ==
    [status |-> status, error |-> error, docs |-> d, cache |-> c, dirExists |-> dirE,
     links |-> l, gitExclude |-> g]

\* Mutant: the working directory is appended without the includes() check.
NextFrontmatter_AlwaysAppend(existingFrontmatter, newId) ==
    Frontmatter(IF existingFrontmatter.mdmd_id # NoId THEN existingFrontmatter.mdmd_id
                ELSE newId,
                NoPath,
                Append(IF existingFrontmatter.paths = NoList THEN <<>>
                       ELSE existingFrontmatter.paths, Cwd),
                resolveCreatedAt(existingFrontmatter.created_at))

\* The frontmatter Link.run writes: mdmd_id, paths and created_at are set,
\* the legacy path key is deleted.
NextFrontmatter(existingFrontmatter, newId) ==
    LET existingPaths == IF existingFrontmatter.paths = NoList THEN <<>>
                         ELSE existingFrontmatter.paths
    IN  Frontmatter(IF existingFrontmatter.mdmd_id # NoId THEN existingFrontmatter.mdmd_id
                    ELSE newId,
                    NoPath,
                    IF Cwd \in Elems(existingPaths) THEN existingPaths
                    ELSE Append(existingPaths, Cwd),
                    resolveCreatedAt(existingFrontmatter.created_at))

\* Link.run after writeFile: u is the upsert, e the ensureSymlinkTarget call.
LinkWritten(d2, c, dirE, l, g, u, e) ==
    IF ~u.ok THEN LinkResult("error", "upsert", d2, c, dirE, l, g)
    ELSE IF ~e.ok THEN LinkResult("error", "non_symlink", d2, u.cache, TRUE, l, g)
    ELSE LinkResult("ok", "none", d2, u.cache, TRUE, e.links, ensureGitExcludeEntry(g))

\* Link.run from writeFile on.
LinkWrite(p, d, c, dirE, l, g, nextFrontmatter) ==
    LinkWritten([d EXCEPT ![p] = [mtimeMs |-> NowMs, size |-> SizeOfText(nextFrontmatter),
                                  fm |-> nextFrontmatter]],
                c, dirE, l, g,
                upsertIndexNote(c, [frontmatter |-> nextFrontmatter,
                                    mdmdId |-> nextFrontmatter.mdmd_id,
                                    mtime |-> NowMs \div MsPerSec, pathInCollection |-> p,
                                    size |-> SizeOfText(nextFrontmatter)]),
                ensureSymlinkTarget(l, p.stem, toAbsoluteCollectionPath(p)))

\* Link.run once the index is refreshed.
LinkRefreshed(p, newId, d, dirE, l, g, r) ==
    IF ~r.ok THEN LinkResult("error", "refresh", d, r.cache, dirE, l, g)
    ELSE IF d[p] = NoFile THEN LinkResult("error", "not_found", d, r.cache, dirE, l, g)
    ELSE LinkWrite(p, d, r.cache, dirE, l, g, NextFrontmatter(d[p].fm, newId))

\* Link.run for the note at collection path p; newId is the value randomUUID()
\* returns.
LinkRun(p, newId, d, c, dirE, l, g) == LinkRefreshed(p, newId, d, dirE, l, g, refreshIndex(d, c))

(***************************************************************************)
(* remove                                                                  *)
(***************************************************************************)
\* A command-line argument that names a path outside the symlink directory.
NotInDir == <<"..">>

\* Mutant: the check for other associated directories is left out.
validateRemovalInput_NoOtherPathsCheck(d, l, symlinkArg, force) ==
    IF symlinkArg \notin LinkNames THEN [ok |-> FALSE, error |-> "not_in_dir"]
    ELSE IF l[symlinkArg] = NoEntry THEN [ok |-> FALSE, error |-> "symlink_missing"]
    ELSE IF l[symlinkArg].kind # "symlink" THEN [ok |-> FALSE, error |-> "non_symlink"]
    ELSE LET targetPath == l[symlinkArg].target
             frontmatter == d[targetPath.rel].fm
             notePaths == IF frontmatter.paths # NoList THEN frontmatter.paths
                          ELSE IF frontmatter.path # NoPath THEN <<frontmatter.path>>
                          ELSE <<>>
         IN  IF ~pathExists(d, targetPath) THEN [ok |-> FALSE, error |-> "target_missing"]
             ELSE IF targetPath.root # CollectionRoot
             THEN [ok |-> FALSE, error |-> "outside_collection"]
             ELSE IF notePaths = <<>> THEN [ok |-> FALSE, error |-> "no_paths"]
             ELSE IF Cwd \notin Elems(notePaths) THEN [ok |-> FALSE, error |-> "metadata_mismatch"]
             ELSE [ok |-> TRUE, error |-> "none", pathInCollection |-> targetPath.rel,
                   symlinkName |-> symlinkArg,
                   warned |-> frontmatter.mdmd_id = NoId]

\* Remove.validateRemovalInput: no side effects.
validateRemovalInput(d, l, symlinkArg, force) ==
    IF symlinkArg \notin LinkNames THEN [ok |-> FALSE, error |-> "not_in_dir"]
    ELSE IF l[symlinkArg] = NoEntry THEN [ok |-> FALSE, error |-> "symlink_missing"]
    ELSE IF l[symlinkArg].kind # "symlink" THEN [ok |-> FALSE, error |-> "non_symlink"]
    ELSE LET targetPath == l[symlinkArg].target
             frontmatter == d[targetPath.rel].fm
             notePaths == IF frontmatter.paths # NoList THEN frontmatter.paths
                          ELSE IF frontmatter.path # NoPath THEN <<frontmatter.path>>
                          ELSE <<>>
         IN  IF ~pathExists(d, targetPath) THEN [ok |-> FALSE, error |-> "target_missing"]
             ELSE IF targetPath.root # CollectionRoot
             THEN [ok |-> FALSE, error |-> "outside_collection"]
             ELSE IF notePaths = <<>> THEN [ok |-> FALSE, error |-> "no_paths"]
             ELSE IF Cwd \notin Elems(notePaths) THEN [ok |-> FALSE, error |-> "metadata_mismatch"]
             ELSE IF Elems(notePaths) \ {Cwd} # {} /\ ~force
             THEN [ok |-> FALSE, error |-> "linked_elsewhere"]
             ELSE [ok |-> TRUE, error |-> "none", pathInCollection |-> targetPath.rel,
                   symlinkName |-> symlinkArg,
                   warned |-> frontmatter.mdmd_id = NoId]

\* What Promise.all yields for the settled validations v: all of them, or the
\* error of the first argument (in argument order) that is rejected.
SettleAll(v) ==
    LET bad == {i \in 1..Len(v) : ~v[i].ok}
    IN  IF bad = {} THEN [ok |-> TRUE, error |-> "none", entries |-> v]
        ELSE [ok |-> FALSE,
              error |-> v[CHOOSE i \in bad : \A j \in bad : i <= j].error,
              entries |-> <<>>]

\* Promise.all(symlinkArgs.map(validateRemovalInput))
ValidateAll(d, l, symlinkArgs, force) ==
    SettleAll([i \in 1..Len(symlinkArgs) |-> validateRemovalInput(d, l, symlinkArgs[i], force)])

\* The answers are read from the terminal only with --interactive.
NoPrompt == <<"no_prompt">>

RemoveResult(status, error, d, c, l, removed) ==
    [status |-> status, error |-> error, docs |-> d, cache |-> c, links |-> l,
     removed |-> removed]

\* processRemovalEntries from entry number index on: unlink the target,
\* delete the row, unlink the symlink; a failing unlink ends the command.
RECURSIVE processRemovalEntries(_, _, _, _, _, _, _)
processRemovalEntries(entries, index, answers, d, c, l, removed) ==
    IF index > Len(entries) THEN RemoveResult("ok", "none", d, c, l, removed)
    ELSE IF answers # NoPrompt /\ ~answers[index]
    THEN processRemovalEntries(entries, index + 1, answers, d, c, l, removed)
    ELSE IF d[entries[index].pathInCollection] = NoFile
    THEN RemoveResult("error", "unlink_target", d, c, l, removed)
    ELSE IF l[entries[index].symlinkName] = NoEntry
    THEN RemoveResult("error", "unlink_symlink",
                      [d EXCEPT ![entries[index].pathInCollection] = NoFile],
                      deleteIndexNoteByPath(c, entries[index].pathInCollection), l, removed)
    ELSE processRemovalEntries(
             entries, index + 1, answers,
             [d EXCEPT ![entries[index].pathInCollection] = NoFile],
             deleteIndexNoteByPath(c, entries[index].pathInCollection),
             [l EXCEPT ![entries[index].symlinkName] = NoEntry],
             removed + 1)

\* Remove.run once every argument is validated.
RemoveValidated(dryRun, answers, d, c, l, v) ==
    IF ~v.ok THEN RemoveResult("error", v.error, d, c, l, 0)
    ELSE IF dryRun THEN RemoveResult("ok", "dry_run", d, c, l, 0)
    ELSE processRemovalEntries(v.entries, 1, answers, d, c, l, 0)

\* Remove.run once the index is refreshed.
RemoveRefreshed(symlinkArgs, force, dryRun, answers, d, l, r) ==
    IF ~r.ok THEN RemoveResult("error", "refresh", d, r.cache, l, 0)
    ELSE RemoveValidated(dryRun, answers, d, r.cache, l,
                         ValidateAll(d, l, symlinkArgs, force))

\* Remove.run
RemoveRun(symlinkArgs, force, dryRun, answers, d, c, l) ==
    RemoveRefreshed(symlinkArgs, force, dryRun, answers, d, l, refreshIndex(d, c))

(***************************************************************************)
(* The ingest destination directory.  A file name is the stem of a source  *)
(* file followed by the indexes findAvailableFilename has appended:        *)
(* n.md, n_2.md, n_3.md, n_2_2.md, ...                                     *)
(***************************************************************************)
DestName(suffix) == [base |-> "n", suffix |-> suffix]

DestNames ==
    {DestName(<<>>)}
    \cup {DestName(<<i>>) : i \in 2..MaxSuffix}
    \cup {DestName(<<2, i>>) : i \in 2..MaxSuffix}

\* Names of the source files handed to ingest: n.md and n_2.md.
SourceNames == {DestName(<<>>), DestName(<<2>>)}

NoDestDir == [n \in DestNames |-> NoFile]

\* A file that was in the destination directory, and one ingest wrote.
ExistingFile == [content |-> "existing"]
IngestedFile == [content |-> "ingested"]

\* readdir(directoryPath)
readdir(dir) == {n \in DOMAIN dir : dir[n] # NoFile}

\* `${base}_${index}${extension}`
Candidate(originalFilename, index) ==
    [originalFilename EXCEPT !.suffix = Append(@, index)]

\* The while loop of findAvailableFilename from index on.
RECURSIVE NextAvailable(_, _, _)
NextAvailable(existingNames, originalFilename, index) ==
    IF Candidate(originalFilename, index) \in existingNames
    THEN NextAvailable(existingNames, originalFilename, index + 1)
    ELSE Candidate(originalFilename, index)

\* Mutant: the destination directory is not looked at.
findAvailableFilename_NoProbe(dir, originalFilename) == originalFilename

\* findAvailableFilename(directoryPath, originalFilename)
findAvailableFilename(dir, originalFilename) ==
    IF originalFilename \notin readdir(dir) THEN originalFilename
    ELSE NextAvailable(readdir(dir), originalFilename, 2)

(***************************************************************************)
(* Bookkeeping of the last command                                         *)
(***************************************************************************)
NoPre == [absent |-> "pre"]
NoInfo == [absent |-> "info"]

\* No command is in progress.
NoRun == [op |-> "none"]

\* The terminal interface is not running.
NoTui == [absent |-> "tui"]

Snap == [docs |-> docs, cache |-> cache, dirExists |-> dirExists,
         links |-> links, gitExclude |-> gitExclude,
         otherLinks |-> otherLinks, otherCache |-> otherCache]

Done(op, status, info) ==
    [op |-> op, status |-> status, prevOp |-> last.op, prevStatus |-> last.status,
     info |-> info]

EnvLast == [op |-> "env", status |-> "ok", prevOp |-> "env", prevStatus |-> "ok",
            info |-> NoInfo]

(***************************************************************************)
(* Specification of the refresh engine: the user edits, touches, creates   *)
(* and deletes documents; refresh runs at any time.                        *)
(***************************************************************************)
RefreshPaths == DocPaths
RefreshIds == {"X"}

RefreshFiles ==
    [mtimeMs : MtimesMs, size : Sizes,
     fm : {Frontmatter(i, NoPath, NoList, NoStamp) : i \in {NoId} \cup RefreshIds}]

InitRefresh ==
    /\ docs = EmptyDocs
    /\ cache = EmptyCache
    /\ dirExists = FALSE
    /\ links = NoLinks
    /\ gitExclude = "nogit"
    /\ otherLinks = NoLinks
    /\ otherCache = EmptyCache
    /\ run = NoRun
    /\ destDir = NoDestDir
    /\ tui = NoTui
    /\ last = EnvLast
    /\ pre = NoPre

\* A document is written outside the program (created or rewritten).
ExtWrite(p, f) ==
    /\ docs[p] # f
    /\ docs' = [docs EXCEPT ![p] = f]
    /\ last' = EnvLast
    /\ pre' = NoPre
    /\ UNCHANGED others
    /\ UNCHANGED <<cache, dirExists, links, gitExclude>>

\* A document is deleted outside the program.
ExtDelete(p) ==
    /\ docs[p] # NoFile
    /\ docs' = [docs EXCEPT ![p] = NoFile]
    /\ last' = EnvLast
    /\ pre' = NoPre
    /\ UNCHANGED others
    /\ UNCHANGED <<cache, dirExists, links, gitExclude>>

\* refreshIndex(collectionRoot) run on its own.
Refresh ==
    LET r == refreshIndex(docs, cache)
    IN  /\ cache' = r.cache
        /\ last' = Done("refresh", IF r.ok THEN "ok" ELSE "error", r)
        /\ pre' = Snap
        /\ UNCHANGED others
        /\ UNCHANGED <<docs, dirExists, links, gitExclude>>

NextRefresh ==
    \/ \E p \in RefreshPaths, f \in RefreshFiles : ExtWrite(p, f)
    \/ \E p \in RefreshPaths : ExtDelete(p)
    \/ Refresh

SpecRefresh == InitRefresh /\ [][NextRefresh]_vars

(***************************************************************************)
(* Properties of the refresh engine (checked under SpecRefresh)            *)
(***************************************************************************)
Fingerprint(d, p) == <<d[p].mtimeMs \div MsPerSec, d[p].size>>

RowFingerprint(c, p) == <<c[p].mtime, c[p].size>>

RefreshDone == last.op = "refresh"

RefreshOk == last.op = "refresh" /\ last.status = "ok"

RefreshFailed == last.op = "refresh" /\ last.status = "error"

\* C2: a refresh whose batch fails leaves the cache exactly as it was before
\* the refresh started; nothing of the batch stays applied.
C2_RefreshAtomic == RefreshFailed => cache = pre.cache

\* A refresh failed after part of its batch (a delete or an earlier upsert)
\* had been applied inside the transaction.
C2_Witness ==
    /\ RefreshFailed
    /\ last.info.deleted + last.info.refreshed > 1
    /\ ApplyBatch(pre.cache, SortedPaths(last.info.toDelete),
                  [i \in 1..Len(FilesToRefresh(pre.cache, scanCollectionMarkdownFiles(docs))) |->
                      toIndexNote(docs, FilesToRefresh(pre.cache, scanCollectionMarkdownFiles(docs))[i])]).cache
          # pre.cache

\* C3: after a successful refresh a cache row exists for a path if and only
\* if a document exists at that path.
C3_RowIffDocument ==
    RefreshOk => \A p \in DocPaths : (cache[p] # NoRow) <=> (docs[p] # NoFile)

\* A successful refresh that both dropped a row and inserted one.
C3_Witness ==
    /\ RefreshOk
    /\ \E p \in DocPaths : pre.cache[p] # NoRow /\ cache[p] = NoRow
    /\ \E p \in DocPaths : pre.cache[p] = NoRow /\ cache[p] # NoRow

\* C4: refresh deletes exactly the cached paths absent from the filesystem,
\* re-parses exactly the files that are not cached or whose (mtime in
\* seconds, size) differs from the cached pair, and leaves every other row
\* untouched.
C4_FingerprintGate ==
    RefreshOk =>
        /\ last.info.toDelete = {p \in DocPaths : pre.cache[p] # NoRow /\ docs[p] = NoFile}
        /\ last.info.toRefresh =
              {p \in DocPaths :
                  /\ docs[p] # NoFile
                  /\ (pre.cache[p] = NoRow \/ RowFingerprint(pre.cache, p) # Fingerprint(docs, p))}
        /\ \A p \in last.info.toDelete : cache[p] = NoRow
        /\ \A p \in last.info.toRefresh :
              cache[p] = [mdmdId |-> docs[p].fm.mdmd_id,
                          mtime |-> Fingerprint(docs, p)[1],
                          size |-> Fingerprint(docs, p)[2],
                          frontmatter |-> docs[p].fm]
        /\ \A p \in DocPaths \ (last.info.toDelete \cup last.info.toRefresh) :
              cache[p] = pre.cache[p]

\* A successful refresh that re-parsed a document because only its size
\* changed and skipped a document that was rewritten within the same second
\* with the same size.
C4_Witness ==
    /\ RefreshOk
    /\ \E p \in last.info.toRefresh :
          /\ pre.cache[p] # NoRow
          /\ pre.cache[p].mtime = Fingerprint(docs, p)[1]
          /\ pre.cache[p].size # docs[p].size
    /\ \E p \in DocPaths :
          /\ docs[p] # NoFile
          /\ p \notin last.info.toRefresh
          /\ docs[p].mtimeMs % MsPerSec # 0
          /\ cache[p].frontmatter # docs[p].fm

\* C5: a refresh that directly follows a successful refresh, with no
\* filesystem change in between, reports refreshed = 0 and deleted = 0 and
\* leaves the cache as it was.
C5_RefreshIdempotent ==
    (RefreshDone /\ last.prevOp = "refresh" /\ last.prevStatus = "ok") =>
        /\ last.status = "ok"
        /\ last.info.refreshed = 0
        /\ last.info.deleted = 0
        /\ cache = pre.cache

\* A second refresh in a row over a collection with documents.
C5_Witness ==
    /\ RefreshDone /\ last.prevOp = "refresh" /\ last.prevStatus = "ok"
    /\ last.info.scanned = Cardinality(RefreshPaths)
    /\ \E p \in RefreshPaths : docs[p].mtimeMs % MsPerSec # 0

(***************************************************************************)
(* Specification of the desired-set builder: buildDesiredSymlinks applied  *)
(* to every ascending list of managed paths of the universe.               *)
(***************************************************************************)
ManagedPathLists == {[paths |-> SortedPaths(S)] : S \in SUBSET AllPathSet}

InitBuild ==
    /\ docs = EmptyDocs
    /\ cache = EmptyCache
    /\ dirExists = FALSE
    /\ links = NoLinks
    /\ gitExclude = "nogit"
    /\ otherLinks = NoLinks
    /\ otherCache = EmptyCache
    /\ run = NoRun
    /\ destDir = NoDestDir
    /\ tui = NoTui
    /\ last = EnvLast
    /\ pre \in ManagedPathLists

\* buildDesiredSymlinks(collectionRoot, managedPaths)
Build ==
    LET b == buildDesiredSymlinks(pre.paths)
    IN  /\ last.op = "env"
        /\ last' = Done("build", IF b.ok THEN "ok" ELSE "error", b)
        /\ UNCHANGED <<docs, cache, dirExists, links, gitExclude, pre>>
        /\ UNCHANGED others

NextBuild == Build

SpecBuild == InitBuild /\ [][NextBuild]_vars

(***************************************************************************)
(* Properties of the desired-set builder (checked under SpecBuild)         *)
(***************************************************************************)
BuildDone == last.op = "build"

BuildOk == last.op = "build" /\ last.status = "ok"

\* The names assigned to the first k entries of a successful build.
NamesBefore(entries, k) == {entries[i].symlinkName : i \in 1..(k - 1)}

\* Entries i < j are the first and the second entry with their basename.
FirstTwoWithBasename(paths, i, j) ==
    /\ i < j
    /\ paths[i].stem = paths[j].stem
    /\ \A k \in 1..(j - 1) : k # i => paths[k].stem # paths[i].stem

\* C9 as stated: when two desired entries share a basename the first keeps
\* name.md and the second gets name__parent.md, unless the build fails with
\* the explicit collision error; assigned names are never shared.
C9_AsStated ==
    BuildDone =>
        /\ \A i, j \in 1..Len(pre.paths) :
              FirstTwoWithBasename(pre.paths, i, j) =>
                 \/ /\ last.status = "ok"
                    /\ last.info.entries[i].symlinkName = pre.paths[i].stem
                    /\ last.info.entries[j].symlinkName =
                          pre.paths[j].stem \o <<ParentName(pre.paths[j])>>
                 \/ /\ last.status = "error"
                    /\ last.info.error = "collision"
        /\ last.status = "ok" =>
              \A i, j \in 1..Len(last.info.entries) :
                 i # j => last.info.entries[i].symlinkName # last.info.entries[j].symlinkName

\* C9 (amended): entries are named in path order.  An entry keeps its
\* basename unless an earlier entry was assigned that name; otherwise it gets
\* name__parent.md, which requires a parent directory and a disambiguated
\* name not yet assigned.  The build fails with "cannot disambiguate" when
\* the colliding entry lies at the top level of the collection and with the
\* collision error when its disambiguated name is already assigned.  Two
\* entries of a successful build never share a name.
C9_Disambiguation ==
    BuildDone =>
        /\ last.status = "ok" =>
              /\ Len(last.info.entries) = Len(pre.paths)
              /\ \A j \in 1..Len(pre.paths) :
                    LET p == pre.paths[j]
                        e == last.info.entries[j]
                        earlier == NamesBefore(last.info.entries, j)
                    IN  /\ e.pathInCollection = p
                        /\ e.symlinkName \notin earlier
                        /\ IF p.stem \notin earlier
                           THEN e.symlinkName = p.stem
                           ELSE /\ p.dir # <<>>
                                /\ e.symlinkName = p.stem \o <<p.dir[Len(p.dir)]>>
        /\ last.status = "error" =>
              LET j == last.info.at
                  p == pre.paths[j]
                  prefix == buildDesiredSymlinks(SubSeq(pre.paths, 1, j - 1))
                  earlier == DesiredNames(prefix.entries)
              IN  /\ j \in 1..Len(pre.paths)
                  /\ prefix.ok
                  /\ p.stem \in earlier
                  /\ IF p.dir = <<>>
                     THEN last.info.error = "cannot_disambiguate"
                     ELSE /\ last.info.error = "collision"
                          /\ (p.stem \o <<p.dir[Len(p.dir)]>>) \in earlier

\* A build over a/n.md and b/n.md: the first keeps n.md, the second gets
\* n__b.md.
C9_Witness ==
    /\ BuildOk
    /\ \E i, j \in 1..Len(pre.paths) :
          /\ FirstTwoWithBasename(pre.paths, i, j)
          /\ last.info.entries[i].symlinkName = pre.paths[i].stem
          /\ last.info.entries[j].symlinkName = pre.paths[j].stem \o <<ParentName(pre.paths[j])>>

(***************************************************************************)
(* Specification of the commands that project a collection into the        *)
(* working directory: sync, doctor and link run at any time over a         *)
(* collection of two documents while the user creates and removes entries  *)
(* of the symlink directory.                                               *)
(***************************************************************************)
SyncPaths == DocPaths

\* Frontmatters of the documents present when the commands start: a/n.md is
\* unmanaged or managed by X, b/n.md is unmanaged or managed by X or Y.
SyncFrontmatters(p) ==
    IF p = P_a_n
    THEN {Frontmatter(NoId, NoPath, NoList, NoStamp),
          Frontmatter("X", Cwd, NoList, Stamp),
          Frontmatter("X", NoPath, <<Cwd>>, Stamp)}
    ELSE {Frontmatter(NoId, Cwd, NoList, NoStamp),
          Frontmatter("X", Cwd, NoList, Stamp),
          Frontmatter("Y", Cwd, NoList, NoStamp),
          Frontmatter("Y", NoPath, <<OtherDir, Cwd>>, Stamp),
          Frontmatter("Y", NoPath, <<OtherDir>>, Stamp)}

SyncFiles(p) ==
    {[mtimeMs |-> MsPerSec, size |-> SizeOfText(fm), fm |-> fm] : fm \in SyncFrontmatters(p)}

SyncDocs ==
    {d \in [DocPaths -> UNION {SyncFiles(p) : p \in SyncPaths} \cup {NoFile}] :
        \A p \in DocPaths : d[p] # NoFile => d[p] \in SyncFiles(p)}

\* The notes link is run on.
LinkArgs == {P_a_n}

\* The --scope values doctor is run with.
DoctorArgs == {"all", "symlinks"}

\* What a symlink made outside the program can resolve to.
SyncTargets == {toAbsoluteCollectionPath(p) : p \in SyncPaths}

SyncEntries == {NonSymlink} \cup {Symlink(t) : t \in SyncTargets}

InitSync ==
    /\ docs \in SyncDocs
    /\ cache = EmptyCache
    /\ dirExists = FALSE
    /\ links = NoLinks
    /\ gitExclude = "missing"
    /\ otherLinks = NoLinks
    /\ otherCache = EmptyCache
    /\ run = NoRun
    /\ destDir = NoDestDir
    /\ tui = NoTui
    /\ last = EnvLast
    /\ pre = NoPre

\* The user creates or replaces an entry of the symlink directory.
ExtPutEntry(n, e) ==
    /\ links[n] # e
    /\ links' = [links EXCEPT ![n] = e]
    /\ dirExists' = TRUE
    /\ last' = EnvLast
    /\ pre' = NoPre
    /\ UNCHANGED others
    /\ UNCHANGED <<docs, cache, gitExclude>>

\* The user removes an entry of the symlink directory.
ExtRemoveEntry(n) ==
    /\ links[n] # NoEntry
    /\ links' = [links EXCEPT ![n] = NoEntry]
    /\ last' = EnvLast
    /\ pre' = NoPre
    /\ UNCHANGED others
    /\ UNCHANGED <<docs, cache, dirExists, gitExclude>>

\* mdmd sync
Sync ==
    \E r \in {SyncRun(docs, cache, dirExists, links, gitExclude)} :
        /\ cache' = r.cache
        /\ dirExists' = r.dirExists
        /\ links' = r.links
        /\ gitExclude' = r.gitExclude
        /\ last' = Done("sync", r.status, [error |-> r.error, desired |-> r.desired, ops |-> r.ops])
        /\ pre' = Snap
        /\ UNCHANGED others
        /\ UNCHANGED docs

\* mdmd doctor [--fix] [--scope ...]
Doctor(scopeFlag, fix) ==
    \E r \in {DoctorRun(scopeFlag, fix, docs, cache, dirExists, links, gitExclude)} :
        /\ cache' = r.cache
        /\ dirExists' = r.dirExists
        /\ links' = r.links
        /\ gitExclude' = r.gitExclude
        /\ last' = Done("doctor", r.status,
                        [scope |-> scopeFlag, fix |-> fix, issues |-> r.issues,
                         desired |-> r.desired, fixes |-> r.fixes])
        /\ pre' = Snap
        /\ UNCHANGED others
        /\ UNCHANGED docs

\* Identifiers no document of the collection carries.
UnusedIds == {i \in Ids : \A p \in DocPaths : docs[p] # NoFile => docs[p].fm.mdmd_id # i}

\* mdmd link <notePath>
Link(p, newId) ==
    \E r \in {LinkRun(p, newId, docs, cache, dirExists, links, gitExclude)} :
        /\ docs' = r.docs
        /\ cache' = r.cache
        /\ dirExists' = r.dirExists
        /\ links' = r.links
        /\ gitExclude' = r.gitExclude
        /\ last' = Done("link", r.status, [error |-> r.error, notePath |-> p])
        /\ pre' = Snap
        /\ UNCHANGED others

NextSync ==
    \/ \E n \in LinkNames, e \in SyncEntries : ExtPutEntry(n, e)
    \/ \E n \in LinkNames : ExtRemoveEntry(n)
    \/ Sync
    \/ \E scopeFlag \in DoctorArgs, fix \in BOOLEAN : Doctor(scopeFlag, fix)
    \/ \E p \in LinkArgs, newId \in UnusedIds : Link(p, newId)

SpecSync == InitSync /\ [][NextSync]_vars

(***************************************************************************)
(* Properties of sync, doctor and link (checked under SpecSync)            *)
(***************************************************************************)
SyncDone == last.op = "sync"

SyncOk == last.op = "sync" /\ last.status = "ok"

DoctorReported == last.op = "doctor" /\ last.status # "error"

\* C6: after a successful sync the symlink directory holds exactly one
\* symlink per desired (name, target) pair, resolving to the desired target,
\* and no entry under any other name.
C6_SyncMatchesDesired ==
    SyncOk =>
        /\ dirExists
        /\ Cardinality(DesiredNames(last.info.desired)) = Len(last.info.desired)
        /\ \A i \in 1..Len(last.info.desired) :
              links[last.info.desired[i].symlinkName] = Symlink(last.info.desired[i].targetPath)
        /\ \A n \in LinkNames \ DesiredNames(last.info.desired) : links[n] = NoEntry

\* A successful sync that replaced a symlink resolving to the wrong document
\* and removed a symlink whose name is not desired.
C6_Witness ==
    /\ SyncOk
    /\ Len(last.info.desired) = 1
    /\ pre.links[<<"n">>] = Symlink(toAbsoluteCollectionPath(P_b_n))
    /\ links[<<"n">>] = Symlink(toAbsoluteCollectionPath(P_a_n))
    /\ pre.links[<<"n", "b">>] # NoEntry

\* C7: a sync that directly follows a successful sync, with nothing changed
\* in between, makes no unlink and no symlink call and leaves the symlink
\* directory as it was.
C7_SyncIdempotent ==
    (SyncDone /\ last.prevOp = "sync" /\ last.prevStatus = "ok") =>
        /\ last.status = "ok"
        /\ last.info.ops = 0
        /\ links = pre.links

\* A second sync in a row over a desired set of two entries.
C7_Witness ==
    /\ SyncDone /\ last.prevOp = "sync" /\ last.prevStatus = "ok"
    /\ Len(last.info.desired) = 2

\* C8: sync, doctor (with or without --fix) and link leave every non-symlink
\* entry of the symlink directory in place.  Sync fails when there is one,
\* link fails when the entry it ensures is one, and doctor reports each as a
\* warning and never as an error.
C8_NonSymlinkKept ==
    (last.op \in {"sync", "doctor", "link"}) =>
        /\ \A n \in LinkNames : pre.links[n] = NonSymlink => links[n] = NonSymlink
        /\ (last.op = "sync" /\ \E n \in LinkNames : pre.links[n] = NonSymlink) =>
              /\ last.status = "error"
              /\ last.info.error \in {"refresh", "non_symlink"}
        /\ (last.op = "link" /\ pre.links[last.info.notePath.stem] = NonSymlink) =>
              /\ last.status = "error"
              /\ last.info.error \in {"refresh", "not_found", "non_symlink"}
        /\ DoctorReported =>
              \A n \in LinkNames : pre.links[n] = NonSymlink =>
                 /\ Issue("symlinks.non_symlink_entry", "warning", "symlinks", NoDoc, n)
                       \in last.info.issues
                 /\ \A i \in last.info.issues : i.entry = n => i.severity = "warning"

\* doctor --fix met a non-symlink entry under a desired name, left it alone
\* and removed a stale symlink next to it.
C8_Witness ==
    /\ DoctorReported
    /\ last.info.fix
    /\ pre.links[<<"n">>] = NonSymlink
    /\ <<"n">> \in DesiredNames(last.info.desired)
    /\ pre.links[<<"n", "b">>].kind = "symlink"
    /\ links[<<"n", "b">>] = NoEntry

\* The directories a frontmatter associates its document with: the paths
\* array, or the legacy scalar path of a document that has no array.
Associated(fm) ==
    IF fm.paths # NoList THEN Elems(fm.paths)
    ELSE IF fm.path # NoPath THEN {fm.path}
    ELSE {}

CacheCurrent ==
    \A p \in DocPaths :
        IF docs[p] = NoFile THEN cache[p] = NoRow
        ELSE cache[p] # NoRow /\ cache[p].frontmatter = docs[p].fm

\* doctor --fix ran the reconciler over the symlink directory.
DoctorReconciled ==
    /\ DoctorReported
    /\ last.info.fix
    /\ "reconcile_symlinks" \in last.info.fixes

\* C19: when doctor in repair mode has run the reconciler, the refresh engine
\* ran before it: the cache the symlinks were reconciled against reflects
\* the documents of the collection.
C19_DoctorRefreshesFirst == DoctorReconciled => CacheCurrent

\* The same for doctor run over every scope.
DoctorAllRefreshesFirst == (DoctorReconciled /\ last.info.scope = "all") => CacheCurrent

\* C10: the desired set sync and doctor compute for the working directory
\* holds exactly the managed documents associated with that directory.
C10_DesiredSet ==
    ((SyncOk \/ DoctorReported) /\ CacheCurrent) =>
        {last.info.desired[i].pathInCollection : i \in 1..Len(last.info.desired)}
           = {p \in DocPaths :
                 /\ docs[p] # NoFile
                 /\ docs[p].fm.mdmd_id # NoId
                 /\ Cwd \in Associated(docs[p].fm)}

(***************************************************************************)
(* Specification of remove: the command runs over batches of one or two    *)
(* arguments in a working directory whose symlink directory the user has   *)
(* filled, starting from a cache that was never refreshed.                 *)
(***************************************************************************)
RemoveFrontmatters(p) ==
    IF p = P_a_n
    THEN {Frontmatter("X", NoPath, <<Cwd>>, Stamp),
          Frontmatter("X", NoPath, <<OtherDir, Cwd>>, Stamp),
          Frontmatter("X", NoPath, <<OtherDir>>, Stamp)}
    ELSE {Frontmatter("Y", Cwd, NoList, Stamp),
          Frontmatter(NoId, NoPath, NoList, NoStamp),
          Frontmatter(NoId, NoPath, <<Cwd>>, NoStamp)}

RemoveFiles(p) ==
    {[mtimeMs |-> MsPerSec, size |-> SizeOfText(fm), fm |-> fm] : fm \in RemoveFrontmatters(p)}

RemoveDocs ==
    {d \in [DocPaths -> UNION {RemoveFiles(p) : p \in DocPaths} \cup {NoFile}] :
        \A p \in DocPaths : d[p] # NoFile => d[p] \in RemoveFiles(p)}

RemoveTargets == {toAbsoluteCollectionPath(p) : p \in DocPaths}

\* The symlink directory when the command starts.
RemoveLinks ==
    {l \in [LinkNames -> {NoEntry, NonSymlink, Symlink(Outside)}
                            \cup {Symlink(t) : t \in RemoveTargets}] :
        l[<<"n", "b">>] \in {NoEntry} \cup {Symlink(t) : t \in RemoveTargets}}

\* The argument lists, --interactive answers remove is run with.
RemoveArgLists ==
    {<< <<"n">> >>, << <<"n">>, <<"n", "b">> >>, << <<"n", "b">>, <<"n">> >>,
     << <<"n">>, NotInDir >>}

RemoveAnswers == {NoPrompt, <<FALSE, TRUE>>}

InitRemove ==
    /\ docs \in RemoveDocs
    /\ cache = EmptyCache
    /\ dirExists = TRUE
    /\ links \in RemoveLinks
    /\ gitExclude = "nogit"
    /\ otherLinks = NoLinks
    /\ otherCache = EmptyCache
    /\ run = NoRun
    /\ destDir = NoDestDir
    /\ tui = NoTui
    /\ last = EnvLast
    /\ pre = NoPre

\* mdmd remove [--force] [--dry-run] [--interactive] <symlink>...
Remove(symlinkArgs, force, dryRun, answers) ==
    \E r \in {RemoveRun(symlinkArgs, force, dryRun, answers, docs, cache, links)} :
        /\ docs' = r.docs
        /\ cache' = r.cache
        /\ links' = r.links
        /\ last' = Done("remove", r.status,
                        [error |-> r.error, args |-> symlinkArgs, force |-> force,
                         removed |-> r.removed])
        /\ pre' = Snap
        /\ UNCHANGED others
        /\ UNCHANGED <<dirExists, gitExclude>>

NextRemove ==
    \E symlinkArgs \in RemoveArgLists, force \in BOOLEAN, dryRun \in BOOLEAN,
       answers \in RemoveAnswers : Remove(symlinkArgs, force, dryRun, answers)

SpecRemove == InitRemove /\ [][NextRemove]_vars

(***************************************************************************)
(* Properties of remove (checked under SpecRemove)                         *)
(***************************************************************************)
RemoveDone == last.op = "remove"

\* The argument does not pass validation in the state the command started
\* from: it is no symlink of the symlink directory, its target is missing or
\* outside the collection, the target is not associated with the working
\* directory, or it is associated with other directories and --force is off.
Rejected(symlinkArg) ==
    \/ symlinkArg \notin LinkNames
    \/ pre.links[symlinkArg].kind # "symlink"
    \/ pre.links[symlinkArg].target.root # CollectionRoot
    \/ pre.docs[pre.links[symlinkArg].target.rel] = NoFile
    \/ Cwd \notin Associated(pre.docs[pre.links[symlinkArg].target.rel].fm)
    \/ /\ Associated(pre.docs[pre.links[symlinkArg].target.rel].fm) # {Cwd}
       /\ ~last.info.force

SomeRejected == \E i \in 1..Len(last.info.args) : Rejected(last.info.args[i])

\* C1 as stated: when an argument of the batch fails validation, every
\* document, every symlink and the cache are as they were before the call.
C1_AsStated ==
    (RemoveDone /\ SomeRejected) =>
        /\ docs = pre.docs
        /\ links = pre.links
        /\ cache = pre.cache

\* C1 (amended): when an argument of the batch fails validation the command
\* fails, every document and every symlink is as it was before the call, and
\* the cache is what the refresh at the start of the command made of it; no
\* removal of the batch is carried out.
C1_RemoveAllOrNothing ==
    (RemoveDone /\ SomeRejected) =>
        /\ last.status = "error"
        /\ last.info.removed = 0
        /\ docs = pre.docs
        /\ links = pre.links
        /\ cache = IF refreshIndex(pre.docs, pre.cache).ok
                   THEN refreshIndex(pre.docs, pre.cache).cache
                   ELSE pre.cache

\* A batch of two whose first argument is valid and whose second is
\* rejected, run over a cache that the refresh had to bring up to date.
C1_Witness ==
    /\ RemoveDone
    /\ Len(last.info.args) = 2
    /\ ~Rejected(last.info.args[1])
    /\ Rejected(last.info.args[2])
    /\ cache # pre.cache

\* The document the argument resolved to when the command started.
RemovalTarget(symlinkArg) == pre.links[symlinkArg].target.rel

\* The association list of the argument's document without the working
\* directory.
RemainingPaths(symlinkArg) == Associated(pre.docs[RemovalTarget(symlinkArg)].fm) \ {Cwd}

\* The command went through the execution of every argument.
RemoveExecutedAll ==
    /\ RemoveDone
    /\ last.status = "ok"
    /\ last.info.removed = Len(last.info.args)

\* C14: when remove executes for an argument, the document and its row are
\* deleted exactly when no directory is left in the association list once
\* the working directory is taken out of it; otherwise the document is kept
\* with the trimmed list and its row holds the rewritten metadata.
C14_DeleteIffLastAssociation ==
    RemoveExecutedAll =>
        \A i \in 1..Len(last.info.args) :
            IF RemainingPaths(last.info.args[i]) = {}
            THEN /\ docs[RemovalTarget(last.info.args[i])] = NoFile
                 /\ cache[RemovalTarget(last.info.args[i])] = NoRow
            ELSE /\ docs[RemovalTarget(last.info.args[i])] # NoFile
                 /\ Associated(docs[RemovalTarget(last.info.args[i])].fm)
                       = RemainingPaths(last.info.args[i])
                 /\ cache[RemovalTarget(last.info.args[i])] # NoRow
                 /\ cache[RemovalTarget(last.info.args[i])].frontmatter
                       = docs[RemovalTarget(last.info.args[i])].fm

\* The argument is a symlink to a document of the collection that carries no
\* identifier.
TargetUnmanaged(symlinkArg) ==
    /\ symlinkArg \in LinkNames
    /\ pre.links[symlinkArg].kind = "symlink"
    /\ pre.links[symlinkArg].target.root = CollectionRoot
    /\ pre.docs[RemovalTarget(symlinkArg)] # NoFile
    /\ pre.docs[RemovalTarget(symlinkArg)].fm.mdmd_id = NoId

\* C15: a batch with a symlink whose target document has no identifier is
\* rejected as an error and nothing is removed.
C15_UnmanagedRejected ==
    (RemoveDone /\ \E i \in 1..Len(last.info.args) : TargetUnmanaged(last.info.args[i])) =>
        /\ last.status = "error"
        /\ last.info.removed = 0
        /\ docs = pre.docs
        /\ links = pre.links

(***************************************************************************)
(* Specification of a move inside the collection: a managed document       *)
(* associated with the working directory is renamed from one collection    *)
(* path to the other while refresh, sync and link run at any time.         *)
(***************************************************************************)
MoveFrontmatters ==
    {Frontmatter("X", Cwd, NoList, Stamp),
     Frontmatter("X", NoPath, <<Cwd>>, Stamp),
     Frontmatter("X", NoPath, <<OtherDir, Cwd>>, Stamp),
     Frontmatter("X", NoPath, <<Cwd>>, OffsetStamp)}

MoveDocs ==
    {[p \in DocPaths |-> IF p = P_a_n
                         THEN [mtimeMs |-> MsPerSec, size |-> SizeOfText(fm), fm |-> fm]
                         ELSE NoFile] : fm \in MoveFrontmatters}

InitMove ==
    /\ docs \in MoveDocs
    /\ cache = EmptyCache
    /\ dirExists = FALSE
    /\ links = NoLinks
    /\ gitExclude = "missing"
    /\ otherLinks = NoLinks
    /\ otherCache = EmptyCache
    /\ run = NoRun
    /\ destDir = NoDestDir
    /\ tui = NoTui
    /\ last = EnvLast
    /\ pre = NoPre

\* rename(2) of a document inside the collection: content, size and mtime
\* travel with the file.
ExtMove(p, q) ==
    /\ docs[p] # NoFile
    /\ docs[q] = NoFile
    /\ docs' = [docs EXCEPT ![p] = NoFile, ![q] = docs[p]]
    /\ last' = Done("move", "ok", [from |-> p, to |-> q])
    /\ pre' = Snap
    /\ UNCHANGED <<cache, dirExists, links, gitExclude>>
    /\ UNCHANGED others

NextMove ==
    \/ \E p \in DocPaths, q \in DocPaths : ExtMove(p, q)
    \/ \E n \in LinkNames : ExtRemoveEntry(n)
    \/ Refresh
    \/ Sync
    \/ \E p \in DocPaths, newId \in UnusedIds : Link(p, newId)

SpecMove == InitMove /\ [][NextMove]_vars

\* The command started right after a move of the managed document whose row
\* was at a to the path b.
MovedFrom(a, b) ==
    /\ last.prevOp = "move"
    /\ pre.docs[a] = NoFile
    /\ pre.cache[a] # NoRow
    /\ pre.cache[a].mdmdId # NoId
    /\ pre.docs[b] # NoFile
    /\ pre.docs[b].fm.mdmd_id = pre.cache[a].mdmdId

\* C11: after a managed document is moved from A to B, a refresh leaves no
\* row at A and a row at B bearing the document's identifier, and a sync in
\* a directory the document is associated with leaves a symlink there that
\* resolves to B.
C11_IdentitySurvivesMove ==
    \A a \in DocPaths, b \in DocPaths :
        MovedFrom(a, b) =>
            /\ (last.op = "refresh" /\ last.status = "ok") =>
                  /\ cache[a] = NoRow
                  /\ cache[b] # NoRow
                  /\ cache[b].mdmdId = pre.cache[a].mdmdId
            /\ (SyncOk /\ Cwd \in Associated(docs[b].fm)) =>
                  /\ cache[a] = NoRow
                  /\ cache[b] # NoRow
                  /\ cache[b].mdmdId = pre.cache[a].mdmdId
                  /\ \E n \in LinkNames : links[n] = Symlink(toAbsoluteCollectionPath(b))

(***************************************************************************)
(* unlink: detach a note from the working directory without deleting it    *)
(***************************************************************************)
UnlinkResult(status, error, d, c, l, unlinked) ==
    [status |-> status, error |-> error, docs |-> d, cache |-> c, links |-> l,
     unlinked |-> unlinked]

\* What unlinkSingle leaves behind for one argument.
UnlinkOne(ok, error, d, c, l, unlinked) ==
    [ok |-> ok, error |-> error, docs |-> d, cache |-> c, links |-> l, unlinked |-> unlinked]

\* Mutant: the frontmatter is rebuilt from the paths alone, mdmd_id is lost.
UnlinkFrontmatter_DropId(frontmatter) ==
    [frontmatter EXCEPT !.mdmd_id = NoId,
                        !.paths = SelectSeq(IF frontmatter.paths = NoList THEN <<>>
                                            ELSE frontmatter.paths,
                                            LAMBDA x : x # Cwd)]

\* {...frontmatter, paths: existingPaths.filter((p) => p !== cwd)}
UnlinkFrontmatter(frontmatter) ==
    [frontmatter EXCEPT !.paths = SelectSeq(IF frontmatter.paths = NoList THEN <<>>
                                            ELSE frontmatter.paths,
                                            LAMBDA x : x # Cwd)]

\* unlinkSingle after writeFile: u is the upsert; then unlink(symlinkPath).
UnlinkWritten(d2, l, symlinkArg, u) ==
    IF ~u.ok THEN UnlinkOne(FALSE, "upsert", d2, u.cache, l, 0)
    ELSE UnlinkOne(TRUE, "none", d2, u.cache, [l EXCEPT ![symlinkArg] = NoEntry], 1)

\* Mutant: a document whose paths list becomes empty is deleted with its row.
UnlinkWrite_DeleteWhenEmpty(d, c, l, symlinkArg, p, nextFrontmatter) ==
    IF nextFrontmatter.paths = <<>>
    THEN UnlinkOne(TRUE, "none", [d EXCEPT ![p] = NoFile], deleteIndexNoteByPath(c, p),
                   [l EXCEPT ![symlinkArg] = NoEntry], 1)
    ELSE UnlinkWritten([d EXCEPT ![p] = [mtimeMs |-> NowMs,
                                         size |-> SizeOfText(nextFrontmatter),
                                         fm |-> nextFrontmatter]],
                       l, symlinkArg,
                       upsertIndexNote(c, [frontmatter |-> nextFrontmatter,
                                           mdmdId |-> d[p].fm.mdmd_id,
                                           mtime |-> NowMs \div MsPerSec,
                                           pathInCollection |-> p,
                                           size |-> SizeOfText(nextFrontmatter)]))

\* unlinkSingle from writeFile on, for the document at collection path p.
UnlinkWrite(d, c, l, symlinkArg, p, nextFrontmatter) ==
    UnlinkWritten([d EXCEPT ![p] = [mtimeMs |-> NowMs, size |-> SizeOfText(nextFrontmatter),
                                    fm |-> nextFrontmatter]],
                  l, symlinkArg,
                  upsertIndexNote(c, [frontmatter |-> nextFrontmatter,
                                      mdmdId |-> d[p].fm.mdmd_id,
                                      mtime |-> NowMs \div MsPerSec, pathInCollection |-> p,
                                      size |-> SizeOfText(nextFrontmatter)]))

\* Unlink.unlinkSingle: the checks, the prompt and the mutations of one
\* argument; confirmed is FALSE when the user answers no to the prompt.
unlinkSingle(d, c, l, symlinkArg, confirmed) ==
    IF symlinkArg \notin LinkNames THEN UnlinkOne(FALSE, "not_in_dir", d, c, l, 0)
    ELSE IF l[symlinkArg].kind # "symlink" THEN UnlinkOne(FALSE, "symlink_missing", d, c, l, 0)
    ELSE IF l[symlinkArg].target.root # CollectionRoot
    THEN UnlinkOne(FALSE, "outside_collection", d, c, l, 0)
    ELSE IF d[l[symlinkArg].target.rel] = NoFile
    THEN UnlinkOne(FALSE, "target_missing", d, c, l, 0)
    ELSE IF d[l[symlinkArg].target.rel].fm.mdmd_id = NoId
    THEN UnlinkOne(FALSE, "not_managed", d, c, l, 0)
    ELSE IF ~confirmed THEN UnlinkOne(TRUE, "skipped", d, c, l, 0)
    ELSE UnlinkWrite(d, c, l, symlinkArg, l[symlinkArg].target.rel,
                     UnlinkFrontmatter(d[l[symlinkArg].target.rel].fm))

\* The loop of Unlink.run over the arguments: the first rejected argument
\* ends the command, what the earlier arguments did stays.
RECURSIVE UnlinkEach(_, _, _, _, _, _, _)
RECURSIVE UnlinkNext(_, _, _, _, _)
UnlinkNext(symlinkArgs, index, answers, unlinked, s) ==
    IF ~s.ok THEN UnlinkResult("error", s.error, s.docs, s.cache, s.links, unlinked)
    ELSE UnlinkEach(symlinkArgs, index + 1, answers, s.docs, s.cache, s.links,
                    unlinked + s.unlinked)

UnlinkEach(symlinkArgs, index, answers, d, c, l, unlinked) ==
    IF index > Len(symlinkArgs) THEN UnlinkResult("ok", "none", d, c, l, unlinked)
    ELSE UnlinkNext(symlinkArgs, index, answers, unlinked,
                    unlinkSingle(d, c, l, symlinkArgs[index],
                                 answers = NoPrompt \/ answers[index]))

\* Unlink.run once the index is refreshed.
UnlinkRefreshed(symlinkArgs, answers, d, l, r) ==
    IF ~r.ok THEN UnlinkResult("error", "refresh", d, r.cache, l, 0)
    ELSE UnlinkEach(symlinkArgs, 1, answers, d, r.cache, l, 0)

\* Unlink.run
UnlinkRun(symlinkArgs, answers, d, c, l) ==
    UnlinkRefreshed(symlinkArgs, answers, d, l, refreshIndex(d, c))

(***************************************************************************)
(* Specification of the remove/unlink family: both commands run over the   *)
(* batches and the documents of SpecRemove; the other working directory    *)
(* holds its own symlinks to the documents.                                *)
(***************************************************************************)
\* The symlink directory of the other working directory.
OtherLinkStates ==
    {l \in [LinkNames -> {NoEntry} \cup {Symlink(t) : t \in RemoveTargets}] :
        l[<<"n", "b">>] = NoEntry}

InitUnlink ==
    /\ docs \in RemoveDocs
    /\ cache = EmptyCache
    /\ dirExists = TRUE
    /\ links \in RemoveLinks
    /\ gitExclude = "nogit"
    /\ otherLinks \in OtherLinkStates
    /\ otherCache = EmptyCache
    /\ run = NoRun
    /\ destDir = NoDestDir
    /\ tui = NoTui
    /\ last = EnvLast
    /\ pre = NoPre

\* mdmd unlink [--interactive] <symlink>...
Unlink(symlinkArgs, answers) ==
    \E r \in {UnlinkRun(symlinkArgs, answers, docs, cache, links)} :
        /\ docs' = r.docs
        /\ cache' = r.cache
        /\ links' = r.links
        /\ last' = Done("unlink", r.status,
                        [error |-> r.error, args |-> symlinkArgs, unlinked |-> r.unlinked])
        /\ pre' = Snap
        /\ UNCHANGED <<dirExists, gitExclude>>
        /\ UNCHANGED others

NextUnlink ==
    \/ \E symlinkArgs \in RemoveArgLists, answers \in RemoveAnswers :
          Unlink(symlinkArgs, answers)
    \/ \E symlinkArgs \in RemoveArgLists, force \in BOOLEAN, answers \in RemoveAnswers :
          Remove(symlinkArgs, force, FALSE, answers)
    \/ Doctor("index", FALSE)

SpecUnlink == InitUnlink /\ [][NextUnlink]_vars

UnlinkDone == last.op = "unlink"

\* Every argument of the batch was detached.
UnlinkedAll ==
    /\ UnlinkDone
    /\ last.status = "ok"
    /\ last.info.unlinked = Len(last.info.args)

\* The document is associated with both working directories.
InBoth(fm) == fm.paths # NoList /\ Elems(fm.paths) = {Cwd, OtherDir}

\* The command took the working directory away from every argument of its
\* batch: unlink detached them all, or remove executed them all.
DisassociatedAll == UnlinkedAll \/ RemoveExecutedAll

\* C12: after a command disassociates a document that is associated with
\* the working directory and the other directory from the working directory
\* only, the document still exists, its association list holds the other
\* directory only, and the symlink directory of the other directory is as
\* it was.
C12_MultiAssociationIndependence ==
    DisassociatedAll =>
        /\ otherLinks = pre.otherLinks
        /\ \A i \in 1..Len(last.info.args) :
              InBoth(pre.docs[RemovalTarget(last.info.args[i])].fm) =>
                 /\ docs[RemovalTarget(last.info.args[i])] # NoFile
                 /\ docs[RemovalTarget(last.info.args[i])].fm.paths = <<OtherDir>>
                 /\ links[last.info.args[i]] = NoEntry

\* The same for unlink alone.
UnlinkKeepsOtherAssociation ==
    UnlinkedAll =>
        /\ otherLinks = pre.otherLinks
        /\ \A i \in 1..Len(last.info.args) :
              InBoth(pre.docs[RemovalTarget(last.info.args[i])].fm) =>
                 /\ docs[RemovalTarget(last.info.args[i])] # NoFile
                 /\ docs[RemovalTarget(last.info.args[i])].fm.paths = <<OtherDir>>
                 /\ links[last.info.args[i]] = NoEntry

\* The argument does not pass the checks of unlinkSingle in the state the
\* command started from.
UnlinkRejected(symlinkArg) ==
    \/ symlinkArg \notin LinkNames
    \/ pre.links[symlinkArg].kind # "symlink"
    \/ pre.links[symlinkArg].target.root # CollectionRoot
    \/ pre.docs[pre.links[symlinkArg].target.rel] = NoFile
    \/ pre.docs[pre.links[symlinkArg].target.rel].fm.mdmd_id = NoId

\* C13: when an argument of an unlink batch fails validation, no document
\* and no symlink has been modified and the cache is what the refresh at the
\* start of the command made of it.
C13_UnlinkAllOrNothing ==
    (UnlinkDone /\ \E i \in 1..Len(last.info.args) : UnlinkRejected(last.info.args[i])) =>
        /\ docs = pre.docs
        /\ links = pre.links
        /\ cache = IF refreshIndex(pre.docs, pre.cache).ok
                   THEN refreshIndex(pre.docs, pre.cache).cache
                   ELSE pre.cache

(***************************************************************************)
(* index-db with collection scopes: index_notes holds the rows of every    *)
(* collection, PRIMARY KEY (collection_id, path_in_collection).  cache is   *)
(* the slice of the working collection, otherCache that of another one.    *)
(***************************************************************************)
\* resolveCollectionId: one collection_id per collection root; a collection
\* is named by its root here.
ThisCollection == CollectionRoot
OtherCollection == "/other-collection"

\* The rows of one collection as rows of index_notes.
NotesOf(collectionId, c) ==
    {[collection_id |-> collectionId, path_in_collection |-> p, mdmd_id |-> c[p].mdmdId,
      mtime |-> c[p].mtime, size |-> c[p].size, frontmatter |-> c[p].frontmatter] :
        p \in {q \in DocPaths : c[q] # NoRow}}

\* The table index_notes.
IndexNotes(c, oc) == NotesOf(ThisCollection, c) \cup NotesOf(OtherCollection, oc)

\* SELECT ... FROM index_notes WHERE collection_id = ?1, keyed by path.
SelectCollection(notes, collectionId) ==
    [p \in DocPaths |->
        IF \E n \in notes : n.collection_id = collectionId /\ n.path_in_collection = p
        THEN LET n == CHOOSE n \in notes :
                         n.collection_id = collectionId /\ n.path_in_collection = p
             IN  [mdmdId |-> n.mdmd_id, mtime |-> n.mtime, size |-> n.size,
                  frontmatter |-> n.frontmatter]
        ELSE NoRow]

\* listIndexedFileStats(db, collectionId)
listIndexedFileStatsOf(notes, collectionId) ==
    {n.path_in_collection : n \in {m \in notes : m.collection_id = collectionId}}

\* Mutant: DELETE FROM index_notes WHERE path_in_collection = ?2.
deleteIndexNoteByPathOf_AnyCollection(notes, collectionId, pathInCollection) ==
    {n \in notes : n.path_in_collection # pathInCollection}

\* deleteIndexNoteByPath(db, collectionId, pathInCollection)
deleteIndexNoteByPathOf(notes, collectionId, pathInCollection) ==
    {n \in notes : ~(n.collection_id = collectionId
                     /\ n.path_in_collection = pathInCollection)}

\* Mutant: index_notes without the unique index idx_notes_collection_mdmd_id.
upsertIndexNoteOf_NoUniqueIndex(notes, collectionId, note) ==
    [ok |-> TRUE,
     notes |-> deleteIndexNoteByPathOf(notes, collectionId, note.pathInCollection)
               \cup {[collection_id |-> collectionId,
                      path_in_collection |-> note.pathInCollection,
                      mdmd_id |-> note.mdmdId, mtime |-> note.mtime,
                      size |-> note.size, frontmatter |-> note.frontmatter]}]

\* upsertIndexNote(db, collectionId, note): fails on the unique index
\* idx_notes_collection_mdmd_id.
upsertIndexNoteOf(notes, collectionId, note) ==
    IF /\ note.mdmdId # NoId
       /\ \E n \in notes : /\ n.collection_id = collectionId
                           /\ n.path_in_collection # note.pathInCollection
                           /\ n.mdmd_id = note.mdmdId
    THEN [ok |-> FALSE, notes |-> notes]
    ELSE [ok |-> TRUE,
          notes |-> deleteIndexNoteByPathOf(notes, collectionId, note.pathInCollection)
                    \cup {[collection_id |-> collectionId,
                           path_in_collection |-> note.pathInCollection,
                           mdmd_id |-> note.mdmdId, mtime |-> note.mtime,
                           size |-> note.size, frontmatter |-> note.frontmatter]}]

RECURSIVE DeletesOf(_, _, _)
DeletesOf(notes, collectionId, paths) ==
    IF paths = <<>> THEN notes
    ELSE DeletesOf(deleteIndexNoteByPathOf(notes, collectionId, Head(paths)), collectionId,
                   Tail(paths))

RECURSIVE UpsertsOf(_, _, _)
UpsertsOf(notes, collectionId, batch) ==
    IF batch = <<>> THEN [ok |-> TRUE, notes |-> notes]
    ELSE IF ~upsertIndexNoteOf(notes, collectionId, Head(batch)).ok
    THEN [ok |-> FALSE, notes |-> notes]
    ELSE UpsertsOf(upsertIndexNoteOf(notes, collectionId, Head(batch)).notes, collectionId,
                   Tail(batch))

\* The refresh transaction of one collection: txn is the batch applied to
\* the table; a failing statement rolls it back.
RefreshedOf(notes, txn) == [ok |-> txn.ok, notes |-> IF txn.ok THEN txn.notes ELSE notes]

\* refreshIndex(collectionRoot) over the scoped table: the rows of the
\* collection are listed, those of missing files deleted and those of new
\* or changed files upserted, in one transaction.
refreshIndexOf(notes, collectionId, d) ==
    RefreshedOf(notes,
        UpsertsOf(DeletesOf(notes, collectionId,
                            SortedPaths({p \in listIndexedFileStatsOf(notes, collectionId) :
                                            d[p] = NoFile})),
                  collectionId,
                  NotesToUpsert(d, FilesToRefresh(SelectCollection(notes, collectionId),
                                                  scanCollectionMarkdownFiles(d)))))

(***************************************************************************)
(* Specification of two collections sharing one index database: documents  *)
(* of the working collection are written and deleted, either collection    *)
(* is refreshed; the documents of the other collection are an input of     *)
(* its refresh.                                                            *)
(***************************************************************************)
ScopeFile(mtimeMs, id) ==
    [mtimeMs |-> mtimeMs, size |-> 1, fm |-> Frontmatter(id, NoPath, NoList, NoStamp)]

ScopeFiles == {ScopeFile(MsPerSec, NoId), ScopeFile(MsPerSec, "X"), ScopeFile(NowMs, "X")}

ScopeDocs == [DocPaths -> ScopeFiles \cup {NoFile}]

\* What the other collection holds when it is refreshed.
OtherScopeDocs ==
    {EmptyDocs,
     [EmptyDocs EXCEPT ![P_a_n] = ScopeFile(MsPerSec, "X"), ![P_b_n] = ScopeFile(MsPerSec, NoId)],
     [EmptyDocs EXCEPT ![P_a_n] = ScopeFile(NowMs, NoId)]}

InitScopes ==
    /\ docs = EmptyDocs
    /\ cache = EmptyCache
    /\ dirExists = FALSE
    /\ links = NoLinks
    /\ gitExclude = "nogit"
    /\ otherLinks = NoLinks
    /\ otherCache = EmptyCache
    /\ run = NoRun
    /\ destDir = NoDestDir
    /\ tui = NoTui
    /\ last = EnvLast
    /\ pre = NoPre

\* refreshIndex(collectionRoot) for the collection with the documents d.
RefreshCollection(collectionId, d) ==
    \E r \in {refreshIndexOf(IndexNotes(cache, otherCache), collectionId, d)} :
        /\ cache' = SelectCollection(r.notes, ThisCollection)
        /\ otherCache' = SelectCollection(r.notes, OtherCollection)
        /\ last' = Done("refresh_collection", IF r.ok THEN "ok" ELSE "error",
                        [collection |-> collectionId, rows |-> Cardinality(r.notes)])
        /\ pre' = Snap
        /\ UNCHANGED <<docs, dirExists, links, gitExclude, otherLinks, run, destDir, tui>>

NextScopes ==
    \/ \E p \in DocPaths, f \in ScopeFiles : ExtWrite(p, f)
    \/ \E p \in DocPaths : ExtDelete(p)
    \/ RefreshCollection(ThisCollection, docs)
    \/ \E d \in OtherScopeDocs : RefreshCollection(OtherCollection, d)

SpecScopes == InitScopes /\ [][NextScopes]_vars

CollectionRefreshed == last.op = "refresh_collection"

LinkSteps_UpsertFirst ==
    <<"refreshIndex", "readNote", "upsertIndexNote", "writeFile", "ensureSymlinkTarget",
      "ensureGitExcludeEntry">>

\* Link.run
LinkSteps ==
    <<"refreshIndex", "readNote", "writeFile", "upsertIndexNote", "ensureSymlinkTarget",
      "ensureGitExcludeEntry">>

\* Mutant: the row of the ingested document is left to the next refresh.
IngestSteps_NoUpsert ==
    <<"refreshIndex", "findPathByMdmdId", "writeFile", "unlinkSource", "ensureSymlinkTarget",
      "ensureGitExcludeEntry">>

\* Ingest.run and ingestSingleFile for one source file.
IngestSteps ==
    <<"refreshIndex", "findPathByMdmdId", "writeFile", "unlinkSource", "upsertIndexNote",
      "ensureSymlinkTarget", "ensureGitExcludeEntry">>

\* Unlink.run and unlinkSingle for one argument.
UnlinkSteps == <<"refreshIndex", "readTarget", "writeFile", "upsertIndexNote", "unlinkSymlink">>

\* Mutant: the row is deleted before the document.
RemoveSteps_RowFirst ==
    <<"refreshIndex", "validateRemovalInput", "deleteIndexNoteByPath", "unlinkTarget",
      "unlinkSymlink">>

\* Remove.run and processRemovalEntries for one argument.
RemoveSteps ==
    <<"refreshIndex", "validateRemovalInput", "unlinkTarget", "deleteIndexNoteByPath",
      "unlinkSymlink">>

\* Mutant: the index is refreshed after the symlink directory is reconciled.
SyncSteps_RefreshLast == <<"listManagedPathsForCwd", "reconcile", "refreshIndex">>

\* Sync.run
SyncSteps == <<"refreshIndex", "listManagedPathsForCwd", "reconcile">>

StepsOf(op) ==
    CASE op = "link" -> LinkSteps
      [] op = "ingest" -> IngestSteps
      [] op = "unlink" -> UnlinkSteps
      [] op = "remove" -> RemoveSteps
      [] op = "sync" -> SyncSteps

\* The document of a command that has not resolved its symlink yet.
NoTarget == [absent |-> "target"]

StepOut(ok, d, c, dirE, l, g, p) ==
    [ok |-> ok, docs |-> d, cache |-> c, dirExists |-> dirE, links |-> l, gitExclude |-> g,
     p |-> p]

\* The file a command writes with the frontmatter fm.
WrittenFile(fm) == [mtimeMs |-> NowMs, size |-> SizeOfText(fm), fm |-> fm]

\* The frontmatter the command t writes into its document.
StepFrontmatter(t, d) ==
    CASE t.op = "link" -> NextFrontmatter(d[t.p].fm, t.newId)
      [] t.op = "unlink" -> UnlinkFrontmatter(d[t.p].fm)
      [] t.op = "ingest" ->
            NextFrontmatter(Frontmatter(NoId, NoPath, NoList, NoStamp), t.newId)

\* The checks of unlinkSingle on its argument.
UnlinkChecked(t, d, l) ==
    /\ l[t.name].kind = "symlink"
    /\ l[t.name].target.root = CollectionRoot
    /\ d[l[t.name].target.rel] # NoFile
    /\ d[l[t.name].target.rel].fm.mdmd_id # NoId

\* The statement step of the handler of command t, on documents d, cache c
\* and symlink directory l: ok is FALSE when the statement throws or the
\* command exits with an error.
Exec(t, step, d, c, dirE, l, g, r) ==
    CASE step = "refreshIndex" -> StepOut(r.ok, d, r.cache, dirE, l, g, t.p)
      [] step = "readNote" -> StepOut(d[t.p] # NoFile, d, c, dirE, l, g, t.p)
      [] step = "findPathByMdmdId" ->
            StepOut(/\ d[t.p] = NoFile
                    /\ \A q \in DocPaths : c[q] # NoRow => c[q].mdmdId # t.newId,
                    d, c, dirE, l, g, t.p)
      [] step = "readTarget" ->
            IF UnlinkChecked(t, d, l)
            THEN StepOut(TRUE, d, c, dirE, l, g, l[t.name].target.rel)
            ELSE StepOut(FALSE, d, c, dirE, l, g, t.p)
      [] step = "validateRemovalInput" ->
            IF validateRemovalInput(d, l, t.name, t.force).ok
            THEN StepOut(TRUE, d, c, dirE, l, g, l[t.name].target.rel)
            ELSE StepOut(FALSE, d, c, dirE, l, g, t.p)
      [] step = "listManagedPathsForCwd" -> StepOut(TRUE, d, c, dirE, l, g, t.p)
      [] step = "writeFile" ->
            IF t.p = NoTarget \/ (t.op # "ingest" /\ d[t.p] = NoFile)
            THEN StepOut(FALSE, d, c, dirE, l, g, t.p)
            ELSE StepOut(TRUE, [d EXCEPT ![t.p] = WrittenFile(StepFrontmatter(t, d))],
                         c, dirE, l, g, t.p)
      [] step = "unlinkSource" -> StepOut(TRUE, d, c, dirE, l, g, t.p)
      [] step = "upsertIndexNote" ->
            IF t.p = NoTarget \/ d[t.p] = NoFile THEN StepOut(FALSE, d, c, dirE, l, g, t.p)
            ELSE StepOut(upsertIndexNote(c, toIndexNote(d, Snapshot(d, t.p))).ok, d,
                         upsertIndexNote(c, toIndexNote(d, Snapshot(d, t.p))).cache,
                         dirE, l, g, t.p)
      [] step = "unlinkTarget" ->
            IF t.p = NoTarget \/ d[t.p] = NoFile THEN StepOut(FALSE, d, c, dirE, l, g, t.p)
            ELSE StepOut(TRUE, [d EXCEPT ![t.p] = NoFile], c, dirE, l, g, t.p)
      [] step = "deleteIndexNoteByPath" ->
            IF t.p = NoTarget THEN StepOut(FALSE, d, c, dirE, l, g, t.p)
            ELSE StepOut(TRUE, d, deleteIndexNoteByPath(c, t.p), dirE, l, g, t.p)
      [] step = "unlinkSymlink" ->
            StepOut(l[t.name] # NoEntry, d, c, dirE, [l EXCEPT ![t.name] = NoEntry], g, t.p)
      [] step = "ensureSymlinkTarget" ->
            StepOut(ensureSymlinkTarget(l, t.name, toAbsoluteCollectionPath(t.p)).ok, d, c,
                    TRUE, ensureSymlinkTarget(l, t.name, toAbsoluteCollectionPath(t.p)).links,
                    g, t.p)
      [] step = "ensureGitExcludeEntry" ->
            StepOut(TRUE, d, c, dirE, l, ensureGitExcludeEntry(g), t.p)
      [] step = "reconcile" -> StepOut(r.status = "ok", d, c, r.dirExists, r.links,
                                       r.gitExclude, t.p)

\* What the statement step needs computed from the state beforehand: the
\* refresh for refreshIndex, the rest of Sync.run for reconcile.
Prepared(step, d, c, dirE, l, g) ==
    CASE step = "refreshIndex" -> refreshIndex(d, c)
      [] step = "reconcile" ->
            SyncDesired(c, dirE, l, g, buildDesiredSymlinks(listManagedPathsForCwd(c, Cwd)))
      [] OTHER -> NoInfo

(***************************************************************************)
(* Specification of the commands run step by step, one command at a time.  *)
(***************************************************************************)
StepOps == {"link", "ingest", "unlink", "remove", "sync"}

StepLinks ==
    {NoLinks,
     [NoLinks EXCEPT ![<<"n">>] = Symlink(toAbsoluteCollectionPath(P_a_n))],
     [NoLinks EXCEPT ![<<"n">>] = Symlink(toAbsoluteCollectionPath(P_b_n))]}

InitSteps ==
    /\ docs \in RemoveDocs
    /\ cache = EmptyCache
    /\ dirExists = TRUE
    /\ links \in StepLinks
    /\ gitExclude = "missing"
    /\ otherLinks = NoLinks
    /\ otherCache = EmptyCache
    /\ run = NoRun
    /\ destDir = NoDestDir
    /\ tui = NoTui
    /\ last = EnvLast
    /\ pre = NoPre

Running == run.op # "none" /\ run.state = "running"

\* A command is started: link and ingest on a document of the collection
\* (ingest on a free destination), unlink and remove on a symlink argument.
Begin(op, p, name, newId, force) ==
    /\ ~Running
    /\ op \in {"link", "ingest"} => p # NoTarget /\ name = p.stem
    /\ op = "ingest" => docs[p] = NoFile
    /\ op \in {"unlink", "remove", "sync"} => p = NoTarget
    /\ op \in {"link", "ingest", "sync"} => ~force
    /\ op = "sync" => name = <<"n">> /\ newId = "X"
    /\ op \in {"unlink", "remove"} => newId = "X"
    /\ run' = [op |-> op, p |-> p, name |-> name, newId |-> newId, force |-> force,
               pc |-> 1, state |-> "running", done |-> <<>>]
    /\ last' = Done("begin", "ok", [op |-> op])
    /\ pre' = Snap
    /\ UNCHANGED <<docs, cache, dirExists, links, gitExclude, otherLinks, otherCache>>
    /\ UNCHANGED <<destDir, tui>>

\* The command in progress performs its next statement.
Step ==
    /\ Running
    /\ \E r \in {Exec(run, StepsOf(run.op)[run.pc], docs, cache, dirExists, links, gitExclude,
                      Prepared(StepsOf(run.op)[run.pc], docs, cache, dirExists, links,
                               gitExclude))} :
          /\ docs' = r.docs
          /\ cache' = r.cache
          /\ dirExists' = r.dirExists
          /\ links' = r.links
          /\ gitExclude' = r.gitExclude
          /\ run' = [run EXCEPT !.p = r.p,
                                !.pc = @ + 1,
                                !.done = IF r.ok THEN Append(@, StepsOf(run.op)[run.pc]) ELSE @,
                                !.state = IF ~r.ok THEN "failed"
                                          ELSE IF run.pc = Len(StepsOf(run.op)) THEN "ended"
                                          ELSE "running"]
    /\ UNCHANGED <<last, pre, otherLinks, otherCache, destDir, tui>>

\* The process dies between two statements.
Crash ==
    /\ Running
    /\ run' = [run EXCEPT !.state = "crashed"]
    /\ UNCHANGED <<docs, cache, dirExists, links, gitExclude, last, pre, otherLinks, otherCache>>
    /\ UNCHANGED <<destDir, tui>>

NextSteps ==
    \/ \E op \in StepOps, p \in DocPaths \cup {NoTarget}, name \in LinkNames, newId \in Ids,
          force \in BOOLEAN : Begin(op, p, name, newId, force)
    \/ Step
    \/ Crash

SpecSteps == InitSteps /\ [][NextSteps]_vars

Mutations == {"link", "ingest", "unlink", "remove"}
DocWrites == {"writeFile", "unlinkTarget"}
CacheWrites == {"upsertIndexNote", "deleteIndexNoteByPath"}

\* The cache as the refresh at the start of the command left it.
RefreshedCache == refreshIndex(pre.docs, pre.cache).cache

\* C16: in a mutation the cache row of the document is written only after
\* the document itself has been written or deleted: no statement that
\* writes the cache is performed before one that writes the document, and
\* a row that differs from the refreshed one belongs to a document that
\* differs from the one the command started with.
C16_DocumentBeforeCache ==
    (run.op \in Mutations) =>
        /\ \A i \in 1..Len(run.done) :
              run.done[i] \in CacheWrites => \E j \in 1..(i - 1) : run.done[j] \in DocWrites
        /\ ("refreshIndex" \in Elems(run.done) /\ run.p # NoTarget
              /\ cache[run.p] # RefreshedCache[run.p])
           => docs[run.p] # pre.docs[run.p]

\* remove has deleted the row of its document, after the document.
C16_Witness ==
    /\ run.op = "remove"
    /\ run.state = "ended"
    /\ RefreshedCache[run.p] # NoRow
    /\ cache[run.p] = NoRow
    /\ docs[run.p] = NoFile

\* No row of the cache c is the row of a document missing from d.
NoDanglingRow(d, c) == \A p \in DocPaths : c[p] # NoRow => d[p] # NoFile

\* C17: when the process dies during a mutation that started from a cache
\* without rows of missing documents, no row of the cache points at a
\* document that does not exist.
C17_CrashLeavesCacheStale ==
    (run.op \in Mutations /\ run.state = "crashed" /\ NoDanglingRow(pre.docs, pre.cache))
        => NoDanglingRow(docs, cache)

\* C18: a command performs no statement that reads the cache or writes a
\* document, a row or a symlink before refreshIndex has ended: refreshIndex
\* is the first statement performed, and until then documents, cache,
\* symlink directory and git exclude file are as the command found them.
C18_RefreshFirst ==
    (run.op \in StepOps) =>
        /\ \A i \in 1..Len(run.done) : run.done[i] # "refreshIndex" =>
              i > 1 /\ run.done[1] = "refreshIndex"
        /\ "refreshIndex" \notin Elems(run.done) =>
              /\ docs = pre.docs
              /\ cache = pre.cache
              /\ links = pre.links
              /\ dirExists = pre.dirExists
              /\ gitExclude = pre.gitExclude

\* sync has run to its end from a stale cache and changed the symlink
\* directory.
C18_Witness ==
    /\ run.op = "sync"
    /\ run.state = "ended"
    /\ pre.cache # RefreshedCache
    /\ cache = RefreshedCache
    /\ links # pre.links

(***************************************************************************)
(* Properties of the index rows (checked under SpecScopes)                 *)
(***************************************************************************)
\* No two rows of the slice c carry the same mdmd_id.
UniqueIds(c) ==
    \A p \in DocPaths, q \in DocPaths :
        (p # q /\ c[p] # NoRow /\ c[q] # NoRow /\ c[p].mdmdId # NoId) =>
            c[p].mdmdId # c[q].mdmdId

SyncReconciled(c, dirE, l, g) ==
    SyncDesired(c, dirE, l, g, buildDesiredSymlinks(listManagedPathsForCwd(c, Cwd)))

\* C22: from the same cache and the same symlink directory, the
\* reconciliation of sync and the one of doctor --fix end alike: both succeed
\* or both fail, and both leave the same symlink directory.
C22_OneReconciliation ==
    /\ (SyncReconciled(cache, dirExists, links, gitExclude).status = "ok")
          = applySymlinkFixes(cache, links).ok
    /\ SyncReconciled(cache, dirExists, links, gitExclude).links
          = applySymlinkFixes(cache, links).links

(***************************************************************************)
(* Properties of link (checked under SpecSync)                             *)
(***************************************************************************)
\* link was run on a document whose paths list already held the working
\* directory.
LinkedAgain ==
    /\ last.op = "link"
    /\ pre.docs[last.info.notePath] # NoFile
    /\ pre.docs[last.info.notePath].fm.paths # NoList
    /\ Cwd \in Elems(pre.docs[last.info.notePath].fm.paths)

LinkCollides ==
    /\ run.op = "link"
    /\ pre.links[run.name].kind = "symlink"
    /\ pre.links[run.name].target.root = CollectionRoot
    /\ pre.links[run.name].target.rel # run.p
    /\ pre.docs[pre.links[run.name].target.rel] # NoFile
    /\ pre.docs[pre.links[run.name].target.rel].fm.mdmd_id # NoId
    /\ Cwd \in Associated(pre.docs[pre.links[run.name].target.rel].fm)

\* C24: when link meets such a collision it names its symlink otherwise or
\* fails; the existing symlink is neither overwritten nor retargeted.
C24_LinkKeepsCollidingSymlink == LinkCollides => links[run.name] = pre.links[run.name]

C26_StampedOnce ==
    (last.op = "link" /\ last.status = "ok") =>
        (pre.docs[last.info.notePath].fm.created_at # NoStamp =>
            docs[last.info.notePath].fm.created_at
                = pre.docs[last.info.notePath].fm.created_at)

(***************************************************************************)
(* Properties of the metadata keys (checked under SpecSteps)               *)
(***************************************************************************)
\* C27: a key that is none of mdmd_id, paths, created_at and git_sha, such
\* as a scalar key named path, keeps its value in every document that link,
\* ingest, unlink or remove leaves in the collection.
C27_UserKeysKept ==
    (run.op \in Mutations) =>
        \A p \in DocPaths :
            (pre.docs[p] # NoFile /\ docs[p] # NoFile) =>
                docs[p].fm.path = pre.docs[p].fm.path

(***************************************************************************)
(* Properties of unlink (checked under SpecUnlink)                         *)
(***************************************************************************)
\* C28: unlink deletes no document; a batch that detached all its arguments
\* leaves each document with a paths list without the working directory, a
\* row holding that frontmatter, and no symlink under the argument's name.
C28_UnlinkKeepsDocument ==
    UnlinkDone =>
        /\ \A p \in DocPaths : pre.docs[p] # NoFile => docs[p] # NoFile
        /\ UnlinkedAll =>
              \A i \in 1..Len(last.info.args) :
                  /\ docs[RemovalTarget(last.info.args[i])].fm.paths # NoList
                  /\ Cwd \notin Elems(docs[RemovalTarget(last.info.args[i])].fm.paths)
                  /\ cache[RemovalTarget(last.info.args[i])] # NoRow
                  /\ cache[RemovalTarget(last.info.args[i])].frontmatter
                        = docs[RemovalTarget(last.info.args[i])].fm
                  /\ links[last.info.args[i]] = NoEntry

\* unlink detached a document that was associated with the working
\* directory only: it is still there, with an empty paths list.
C28_Witness ==
    /\ UnlinkedAll
    /\ \E i \in 1..Len(last.info.args) :
          /\ pre.docs[RemovalTarget(last.info.args[i])].fm.paths = <<Cwd>>
          /\ docs[RemovalTarget(last.info.args[i])] # NoFile
          /\ docs[RemovalTarget(last.info.args[i])].fm.paths = <<>>

DoctorFixDone == last.op = "doctor" /\ last.info.fix

\* C30: doctor --fix deletes no document, and no file of the symlink
\* directory that is not a symlink, whatever the issues, the cache and the
\* symlink directory.
C30_DoctorFixKeepsDocuments ==
    DoctorFixDone =>
        /\ \A p \in DocPaths : pre.docs[p] # NoFile => docs[p] = pre.docs[p]
        /\ \A n \in LinkNames : pre.links[n] = NonSymlink => links[n] = NonSymlink

\* doctor --fix refreshed a cache without rows and reconciled a symlink
\* directory that held a stale symlink next to a regular file: the symlink
\* is gone, the file and the documents are there.
C30_Witness ==
    /\ DoctorFixDone
    /\ {"refresh_index", "reconcile_symlinks"} \subseteq last.info.fixes
    /\ pre.cache = EmptyCache
    /\ \E p \in DocPaths : docs[p] # NoFile
    /\ \E n \in LinkNames : pre.links[n].kind = "symlink" /\ links[n] = NoEntry
    /\ \E n \in LinkNames : pre.links[n] = NonSymlink /\ links[n] = NonSymlink

\* doctor --fix over the symlinks scope, started on a symlink directory
\* that held nothing but symlinks.
DoctorFixedSymlinks ==
    /\ DoctorFixDone
    /\ "symlinks" \in resolveScopes(last.info.scope)
    /\ \A n \in LinkNames : pre.links[n] # NonSymlink

\* Two documents of the collection carry the same mdmd_id.
SharedId(d) ==
    \E p \in DocPaths, q \in DocPaths :
        /\ p # q
        /\ d[p] # NoFile
        /\ d[q] # NoFile
        /\ d[p].fm.mdmd_id # NoId
        /\ d[p].fm.mdmd_id = d[q].fm.mdmd_id

\* C31: such a run reaches its second audit, which finds no symlink issue,
\* and exits with 0 when no issue is left and with 1 otherwise.
C31_DoctorFixExitCode ==
    DoctorFixedSymlinks =>
        /\ last.status # "error"
        /\ \A i \in last.info.issues : i.scope # "symlinks"
        /\ last.status = "ok" <=> last.info.issues = {}

\* What holds of such a run: it ends in a runtime error only when the index refresh of
\* its repair is rejected (two documents share an mdmd_id); otherwise its
\* second audit finds no symlink issue, the exit code is 0 when no issue is
\* left and 1 when one is, and with the symlinks scope alone it is 0.
DoctorFixHealthy ==
    DoctorFixedSymlinks =>
        /\ last.status = "error" => (last.info.scope = "all" /\ SharedId(pre.docs))
        /\ last.status # "error" =>
              /\ \A i \in last.info.issues : i.scope # "symlinks"
              /\ last.status = "ok" <=> last.info.issues = {}
              /\ last.status = "issues" <=> last.info.issues # {}
        /\ last.info.scope = "symlinks" => last.status = "ok"

\* doctor --fix created a missing symlink, removed or retargeted another
\* one, and exited with 0.
DoctorFixHealthyReached ==
    /\ DoctorFixedSymlinks
    /\ last.status = "ok"
    /\ \E n \in LinkNames : pre.links[n] = NoEntry /\ links[n].kind = "symlink"
    /\ \E n \in LinkNames : pre.links[n].kind = "symlink" /\ links[n] # pre.links[n]

\* C32: doctor over the index scope reports two documents of the collection
\* that carry the same mdmd_id as a duplicate issue.
C32_DuplicatesReported ==
    (/\ last.op = "doctor"
     /\ last.status # "error"
     /\ "index" \in resolveScopes(last.info.scope)
     /\ SharedId(docs)) =>
        \E i \in last.info.issues : i.code = "index.duplicate_mdmd_id"

\* No command ever gets a duplicate issue out of doctor.
DuplicateIssueUnreachable ==
    last.op = "doctor" => \A i \in last.info.issues : i.code # "index.duplicate_mdmd_id"

(***************************************************************************)
(* Properties of ingest (checked under SpecSteps)                          *)
(***************************************************************************)
\* ingest of a source file without frontmatter ran to its end.
IngestEnded == run.op = "ingest" /\ run.state = "ended"

\* C33: after the ingest of a file without metadata the document at the
\* new collection path carries the generated mdmd_id and the paths list
\* [cwd], the symlink of the working directory resolves to that path, and
\* the row of that path has the mtime and size of the written file.
C33_IngestResult ==
    IngestEnded =>
        /\ docs[run.p] # NoFile
        /\ docs[run.p].fm.mdmd_id = run.newId
        /\ docs[run.p].fm.paths = <<Cwd>>
        /\ links[run.name] = Symlink(toAbsoluteCollectionPath(run.p))
        /\ cache[run.p] # NoRow
        /\ cache[run.p].mdmdId = run.newId
        /\ cache[run.p].mtime = docs[run.p].mtimeMs \div MsPerSec
        /\ cache[run.p].size = docs[run.p].size
        /\ cache[run.p].frontmatter = docs[run.p].fm

\* An ingest ended at a collection path that was free, in a working
\* directory whose symlink name was free.
C33_Witness ==
    /\ IngestEnded
    /\ pre.docs[run.p] = NoFile
    /\ pre.links[run.name] = NoEntry
    /\ docs[run.p].fm.paths = <<Cwd>>
    /\ links[run.name].kind = "symlink"
    /\ cache[run.p] # NoRow

\* A document of the collection d carries the mdmd_id id.
IdInCollection(d, id) == \E q \in DocPaths : d[q] # NoFile /\ d[q].fm.mdmd_id = id

\* The row of a document that is gone holds the mdmd_id id in the cache c.
StaleRowWith(d, c, id) ==
    \E q \in DocPaths : d[q] = NoFile /\ c[q] # NoRow /\ c[q].mdmdId = id

\* C34: an ingest whose mdmd_id is carried by a document of the collection
\* stops before it writes: the source stays, documents and symlinks are as
\* they were; and the lookup stops an ingest only for an mdmd_id that a
\* document of the collection carries, not for one left in a stale row.
C34_IngestDuplicateCheck ==
    run.op = "ingest" =>
        /\ IdInCollection(pre.docs, run.newId) =>
              /\ run.state # "ended"
              /\ "writeFile" \notin Elems(run.done)
              /\ "unlinkSource" \notin Elems(run.done)
              /\ docs = pre.docs
              /\ links = pre.links
        /\ (run.state = "failed" /\ run.done = <<"refreshIndex">>) =>
              IdInCollection(pre.docs, run.newId)

\* An ingest was stopped by the lookup.
IngestStopped ==
    /\ run.op = "ingest"
    /\ run.state = "failed"
    /\ run.done = <<"refreshIndex">>
    /\ IdInCollection(pre.docs, run.newId)

\* An ingest ran to its end although a stale row held its mdmd_id when it
\* started.
C34_Witness ==
    /\ IngestEnded
    /\ StaleRowWith(pre.docs, pre.cache, run.newId)
    /\ ~IdInCollection(pre.docs, run.newId)

(***************************************************************************)
(* Specification of ingest into a destination directory that holds any     *)
(* files of these names.                                                   *)
(***************************************************************************)
InitDest ==
    /\ docs = EmptyDocs
    /\ cache = EmptyCache
    /\ dirExists = FALSE
    /\ links = NoLinks
    /\ gitExclude = "missing"
    /\ otherLinks = NoLinks
    /\ otherCache = EmptyCache
    /\ run = NoRun
    /\ destDir \in [DestNames -> {NoFile, ExistingFile}]
    /\ tui = NoTui
    /\ last = EnvLast
    /\ pre = NoPre

\* ingestSingleFile: the destination name is found and the file written.
IngestInto(originalFilename) ==
    \E destinationName \in {findAvailableFilename(destDir, originalFilename)} :
        /\ destinationName \in DestNames
        /\ destDir' = [destDir EXCEPT ![destinationName] = IngestedFile]
        /\ last' = Done("ingest_file", "ok",
                        [source |-> originalFilename, destinationName |-> destinationName,
                         before |-> destDir])
        /\ pre' = Snap
        /\ UNCHANGED <<docs, cache, dirExists, links, gitExclude, otherLinks, otherCache,
                       run, tui>>

NextDest == \E originalFilename \in SourceNames : IngestInto(originalFilename)

SpecDest == InitDest /\ [][NextDest]_vars

(***************************************************************************)
(* Properties of the destination name (checked under SpecDest)             *)
(***************************************************************************)
\* C35: ingest writes to a name that was free, leaves every file that was
\* there as it was, and the name is the source's name when that was free,
\* otherwise the source's name with the first free index from 2 on.
C35_IngestNeverOverwrites ==
    last.op = "ingest_file" =>
        /\ last.info.before[last.info.destinationName] = NoFile
        /\ destDir[last.info.destinationName] = IngestedFile
        /\ \A n \in DestNames \ {last.info.destinationName} :
              destDir[n] = last.info.before[n]
        /\ last.info.before[last.info.source] = NoFile =>
              last.info.destinationName = last.info.source
        /\ last.info.before[last.info.source] # NoFile =>
              \E k \in 2..MaxSuffix :
                  /\ last.info.destinationName = Candidate(last.info.source, k)
                  /\ \A j \in 2..(k - 1) :
                        last.info.before[Candidate(last.info.source, j)] # NoFile

\* n.md was ingested into a directory that held n.md and n_2.md: it was
\* written as n_3.md.
C35_Witness ==
    /\ last.op = "ingest_file"
    /\ last.info.source = DestName(<<>>)
    /\ last.info.before[DestName(<<>>)] = ExistingFile
    /\ last.info.before[DestName(<<2>>)] # NoFile
    /\ last.info.destinationName = DestName(<<3>>)
    /\ destDir[DestName(<<>>)] = ExistingFile

(***************************************************************************)
(* The terminal interface.  tui holds the fields of the reducer state the  *)
(* mode and the selection depend on (mode, selected, scope, managedFilter, *)
(* focusTarget), the linkNoteToDir calls of a batch link that are in       *)
(* flight (tasks) and the mutations they have performed (log).  A note is  *)
(* keyed by its path.                                                      *)
(***************************************************************************)
\* initialState
initialState ==
    [mode |-> "normal", selected |-> {}, scope |-> "cwd", managedFilter |-> "managed",
     focusTarget |-> "list"]

\* reducer(state, action); an action that changes none of the fields above
\* (cursor, filter text, sort order, preview, status) returns the state.
reducer(state, action) ==
    CASE action.type = "CLEAR_SELECTION" ->
            [state EXCEPT !.mode = "normal", !.selected = {}]
      [] action.type = "CYCLE_FOCUS" ->
            LET next == CASE state.focusTarget = "list" -> "preview"
                          [] state.focusTarget = "preview" -> "filter"
                          [] OTHER -> "list"
            IN  [state EXCEPT !.focusTarget = next,
                              !.mode = IF next = "filter" THEN "filter" ELSE "normal"]
      [] action.type = "SELECT_ALL" ->
            [state EXCEPT !.selected = IF action.keys \subseteq state.selected THEN {}
                                       ELSE action.keys]
      [] action.type = "SET_MODE" ->
            [state EXCEPT !.focusTarget =
                              IF action.mode = "filter" THEN "filter"
                              ELSE IF action.mode = "normal" /\ state.focusTarget = "filter"
                              THEN "list"
                              ELSE state.focusTarget,
                          !.mode = action.mode]
      [] action.type = "TOGGLE_MANAGED_FILTER" ->
            [state EXCEPT !.managedFilter = IF @ = "managed" THEN "all" ELSE "managed",
                          !.selected = {}]
      [] action.type = "TOGGLE_SCOPE" ->
            [state EXCEPT !.scope = IF @ = "cwd" THEN "collection" ELSE "cwd",
                          !.selected = {}]
      [] action.type = "TOGGLE_SELECT" ->
            LET next == IF action.key \in state.selected
                        THEN state.selected \ {action.key}
                        ELSE state.selected \cup {action.key}
            IN  [state EXCEPT !.mode = IF next # {} THEN "batch" ELSE "normal",
                              !.selected = next]
      [] OTHER -> state

\* What useKeyboard dispatches for a key: cursorNote is the note under the
\* cursor (NoTarget when the list is empty), filteredNotes the notes shown.
Dispatched(state, key, cursorNote, filteredNotes) ==
    IF state.mode = "help"
    THEN IF key \in {"escape", "q"} THEN <<[type |-> "SET_MODE", mode |-> "normal"]>> ELSE <<>>
    ELSE IF state.mode = "filter"
    THEN IF key \in {"enter", "tab"} THEN <<[type |-> "SET_MODE", mode |-> "normal"]>>
         ELSE IF key = "escape"
         THEN <<[type |-> "SET_FILTER"], [type |-> "SET_MODE", mode |-> "normal"]>>
         ELSE <<>>
    ELSE CASE key = "*" -> <<[type |-> "SELECT_ALL", keys |-> filteredNotes]>>
           [] key = "/" -> <<[type |-> "SET_MODE", mode |-> "filter"]>>
           [] key = "?" -> <<[type |-> "SET_MODE", mode |-> "help"]>>
           [] key = "escape" ->
                 IF state.mode = "batch" THEN <<[type |-> "CLEAR_SELECTION"]>> ELSE <<>>
           [] key = "m" -> <<[type |-> "TOGGLE_MANAGED_FILTER"]>>
           [] key = "space" ->
                 IF cursorNote # NoTarget THEN <<[type |-> "TOGGLE_SELECT", key |-> cursorNote]>>
                 ELSE <<>>
           [] key = "tab" -> <<[type |-> "TOGGLE_SCOPE"]>>
           [] OTHER -> <<>>

\* The actions are reduced in the order they were dispatched.
RECURSIVE Reduced(_, _)
Reduced(state, actions) ==
    IF actions = <<>> THEN state
    ELSE Reduced(reducer(state, Head(actions)), Tail(actions))

TuiKeys == {"*", "/", "?", "escape", "q", "enter", "tab", "m", "space"}

\* linkNoteToDir, one entry per await.
LinkNoteSteps ==
    <<"readFile", "writeFile", "upsertIndexNote", "ensureSymlinkTarget",
      "ensureGitExcludeEntry">>

NoTask == [absent |-> "task"]
NoTasks == [n \in DocPaths |-> NoTask]

\* The fields of the reducer state.
ReducerState(t) ==
    [mode |-> t.mode, selected |-> t.selected, scope |-> t.scope,
     managedFilter |-> t.managedFilter, focusTarget |-> t.focusTarget]

TuiState(state, tasks, log) ==
    [mode |-> state.mode, selected |-> state.selected, scope |-> state.scope,
     managedFilter |-> state.managedFilter, focusTarget |-> state.focusTarget,
     tasks |-> tasks, log |-> log]

\* The documents the interface is started on: both managed, indexed, none
\* of them linked to the working directory.
TuiDocs ==
    [p \in DocPaths |->
        [mtimeMs |-> MsPerSec, size |-> 1,
         fm |-> Frontmatter(IF p = P_a_n THEN "X" ELSE "Y", NoPath, <<>>, Stamp)]]

InitTui ==
    /\ docs = TuiDocs
    /\ cache = refreshIndex(TuiDocs, EmptyCache).cache
    /\ dirExists = FALSE
    /\ links = NoLinks
    /\ gitExclude = "missing"
    /\ otherLinks = NoLinks
    /\ otherCache = EmptyCache
    /\ run = NoRun
    /\ destDir = NoDestDir
    /\ tui = TuiState(initialState, NoTasks, <<>>)
    /\ last = EnvLast
    /\ pre = NoPre

\* A key is pressed.  Only space looks at the note under the cursor and
\* only * at the notes shown.
Key(key, cursorNote, filteredNotes) ==
    /\ tui' = TuiState(Reduced(ReducerState(tui),
                               Dispatched(ReducerState(tui), key, cursorNote, filteredNotes)),
                       tui.tasks, tui.log)
    /\ UNCHANGED <<docs, cache, dirExists, links, gitExclude, last, pre, otherLinks,
                   otherCache, run, destDir>>

\* No linkNoteToDir call of a batch is in flight.
TasksIdle == \A n \in DocPaths : tui.tasks[n] = NoTask

\* L in batch mode: Promise.all(toLink.map(linkNoteToDir)) starts one call
\* per selected managed note; each runs up to its first await.  A second
\* batch is started only when the first has settled.
BatchLink ==
    /\ tui.mode = "batch"
    /\ TasksIdle
    /\ \E n \in tui.selected : cache[n] # NoRow /\ cache[n].mdmdId # NoId
    /\ tui' = [tui EXCEPT
                 !.tasks = [n \in DocPaths |->
                               IF n \in tui.selected /\ cache[n] # NoRow
                                  /\ cache[n].mdmdId # NoId
                               THEN [pc |-> 1, existing |-> NoInfo, ok |-> TRUE]
                               ELSE NoTask],
                 !.log = <<>>]
    /\ last' = Done("batch_link", "ok", [selected |-> tui.selected])
    /\ pre' = Snap
    /\ UNCHANGED <<docs, cache, dirExists, links, gitExclude, otherLinks, otherCache, run,
                   destDir>>

\* The statement step of linkNoteToDir for the note n, whose frontmatter
\* was read as existing.
LinkNoteExec(step, n, existing, d, c, dirE, l, g) ==
    CASE step = "readFile" -> StepOut(d[n] # NoFile, d, c, dirE, l, g, n)
      [] step = "writeFile" ->
            StepOut(TRUE, [d EXCEPT ![n] = WrittenFile(NextFrontmatter(existing, NoId))],
                    c, dirE, l, g, n)
      [] step = "upsertIndexNote" ->
            StepOut(upsertIndexNote(c, toIndexNote(d, Snapshot(d, n))).ok, d,
                    upsertIndexNote(c, toIndexNote(d, Snapshot(d, n))).cache, dirE, l, g, n)
      [] step = "ensureSymlinkTarget" ->
            StepOut(ensureSymlinkTarget(l, n.stem, toAbsoluteCollectionPath(n)).ok, d, c,
                    TRUE, ensureSymlinkTarget(l, n.stem, toAbsoluteCollectionPath(n)).links,
                    g, n)
      [] step = "ensureGitExcludeEntry" ->
            StepOut(TRUE, d, c, dirE, l, ensureGitExcludeEntry(g), n)

\* The linkNoteToDir call for the note n resumes after an await and runs
\* to its next one.
TaskStep(n) ==
    /\ tui.tasks[n] # NoTask
    /\ tui.tasks[n].ok
    /\ tui.tasks[n].pc <= Len(LinkNoteSteps)
    /\ \E r \in {LinkNoteExec(LinkNoteSteps[tui.tasks[n].pc], n, tui.tasks[n].existing,
                              docs, cache, dirExists, links, gitExclude)} :
          /\ docs' = r.docs
          /\ cache' = r.cache
          /\ dirExists' = r.dirExists
          /\ links' = r.links
          /\ gitExclude' = r.gitExclude
          /\ tui' = [tui EXCEPT
                       !.tasks[n] = [pc |-> @.pc + 1,
                                     existing |-> IF @.pc = 1 /\ r.ok THEN docs[n].fm
                                                  ELSE @.existing,
                                     ok |-> r.ok],
                       !.log = IF r.ok /\ tui.tasks[n].pc > 1
                               THEN Append(@, [note |-> n,
                                               step |-> LinkNoteSteps[tui.tasks[n].pc]])
                               ELSE @]
    /\ UNCHANGED <<last, pre, otherLinks, otherCache, run, destDir>>

\* Every call of the batch has settled: .then dispatches CLEAR_SELECTION
\* when all were fulfilled, .catch only sets the status line.
BatchSettled ==
    /\ ~TasksIdle
    /\ \A n \in DocPaths :
          tui.tasks[n] # NoTask =>
              (~tui.tasks[n].ok \/ tui.tasks[n].pc > Len(LinkNoteSteps))
    /\ tui' = TuiState(IF \A n \in DocPaths : tui.tasks[n] # NoTask => tui.tasks[n].ok
                       THEN reducer(ReducerState(tui), [type |-> "CLEAR_SELECTION"])
                       ELSE ReducerState(tui),
                       NoTasks, <<>>)
    /\ UNCHANGED <<docs, cache, dirExists, links, gitExclude, last, pre, otherLinks,
                   otherCache, run, destDir>>

NextTui ==
    \/ \E key \in TuiKeys \ {"*", "space"} : Key(key, NoTarget, {})
    \/ \E filteredNotes \in SUBSET DocPaths : Key("*", NoTarget, filteredNotes)
    \/ \E cursorNote \in DocPaths \cup {NoTarget} : Key("space", cursorNote, {})
    \/ BatchLink
    \/ \E n \in DocPaths : TaskStep(n)
    \/ BatchSettled

SpecTui == InitTui /\ [][NextTui]_vars

(***************************************************************************)
(* Properties of the terminal interface (checked under SpecTui)            *)
(***************************************************************************)
\* C36: the mutations of one batch are performed one argument after the
\* other: once a mutation for a second note has happened, none follows for
\* the first.
C36_SequentialMutations ==
    \A i \in 1..Len(tui.log), j \in 1..Len(tui.log), k \in 1..Len(tui.log) :
        (i < j /\ j < k /\ tui.log[i].note = tui.log[k].note) =>
            tui.log[j].note = tui.log[i].note

\* C40: the mode is batch only while the selection is not empty.
C40_BatchOnlyWithSelection == tui.mode = "batch" => tui.selected # {}

(***************************************************************************)
(* Properties of the refresh batch (checked under SpecRefresh)             *)
(***************************************************************************)
\* Every document whose frontmatter differs from its row has another
\* fingerprint than the row: the scan sees every change.
AllChangesSeen(d, c) ==
    \A p \in DocPaths :
        (d[p] # NoFile /\ c[p] # NoRow /\ c[p].frontmatter # d[p].fm) =>
            shouldRefreshFile(c[p], Snapshot(d, p))

\* C37: a refresh of a collection whose documents carry pairwise distinct
\* mdmd_ids succeeds, whatever rows the cache held, also when an mdmd_id
\* has moved between documents that both changed.
C37_RefreshSucceedsOnDistinctIds ==
    (last.op = "refresh" /\ ~SharedId(docs) /\ AllChangesSeen(docs, pre.cache)) =>
        last.status = "ok"

(***************************************************************************)
(* Properties of the rows the mutations write (checked under SpecSteps)    *)
(***************************************************************************)
\* link, unlink or ingest has run to its end.
MutationEnded == run.op \in {"link", "unlink", "ingest"} /\ run.state = "ended"

\* C38: right after link, unlink or ingest has completed, a refresh finds
\* the document of the command unchanged and leaves its row as it is.
C38_RowUpdatedInPlace ==
    MutationEnded =>
        /\ cache[run.p] # NoRow
        /\ cache[run.p].frontmatter = docs[run.p].fm
        /\ run.p \notin refreshIndex(docs, cache).toRefresh
        /\ refreshIndex(docs, cache).cache[run.p] = cache[run.p]

\* link has rewritten a document and its row, and the refresh that follows
\* succeeds with nothing to do.
C38_Witness ==
    /\ MutationEnded
    /\ run.op = "link"
    /\ docs[run.p] # pre.docs[run.p]
    /\ refreshIndex(docs, cache).ok
    /\ refreshIndex(docs, cache).refreshed = 0
    /\ refreshIndex(docs, cache).cache = cache

(***************************************************************************)
(* Properties of doctor after unlink (checked under SpecUnlink)            *)
(***************************************************************************)
\* A managed document that is associated with no directory.
OnlyInCollection(d, p) ==
    p # NoDoc /\ d[p] # NoFile /\ d[p].fm.mdmd_id # NoId /\ d[p].fm.paths = <<>>

\* doctor ran right after a successful unlink, and everything it reports is
\* about documents that are associated with no directory.
DoctorAfterUnlink ==
    /\ last.op = "doctor"
    /\ last.prevOp = "unlink"
    /\ last.prevStatus = "ok"
    /\ \A i \in last.info.issues : OnlyInCollection(docs, i.doc)

\* C39: after a document was unlinked from its only directory, doctor on an
\* otherwise consistent collection reports no error for that document.
C39_EmptyPathsValid ==
    DoctorAfterUnlink => \A i \in last.info.issues : i.severity # "error"

\* Under the same conditions doctor reports index.invalid_paths as an error
\* for every indexed document without associations.
EmptyPathsReported ==
    DoctorAfterUnlink =>
        \A p \in DocPaths :
            OnlyInCollection(docs, p) =>
                \E i \in last.info.issues :
                    i.doc = p /\ i.code = "index.invalid_paths" /\ i.severity = "error"

====
